---- MODULE Spec2Model ----
(***************************************************************************)
(* Cost-estimation backend (AITEC costos): the totals engine computeTotals, *)
(* the numeric utilities clampNumber / money, the plan normalization of    *)
(* POST /ai/costeo and the handlers that call them.                        *)
(*                                                                         *)
(* JavaScript values are modelled as tagged records, strings as sequences  *)
(* of one-character strings, and JavaScript Numbers as exact decimal       *)
(* rationals  n/d * 10^e  (plus NaN and the two infinities).  The model's  *)
(* inputs stay in the range where IEEE doubles round to the same whole     *)
(* currency unit as the exact value.                                       *)
(***************************************************************************)
EXTENDS Integers, Sequences, FiniteSets, TLC

VARIABLES
    pc,       \* position of the call under analysis
    arg,      \* the argument object handed to computeTotals
    totals,   \* what computeTotals returned (or the TypeError it raised)
    plan,     \* the decoded oracle value handed to the normalization
    norm,     \* the normalized plan (or the TypeError raised)
    norm2,    \* the normalization applied to norm once more
    openaiConfigured,  \* the server has a usable OPENAI_API_KEY
    request,  \* the request being handled
    calls,    \* the oracle calls issued for the request, in order
    outputText,  \* the text of the oracle's last answer
    thrown,   \* the error the handler's catch received
    responses,   \* the responses sent for the request
    partials, \* the partial extractions collected by the condensation
    COSTINGS, \* the stored costing records
    MATERIALS,      \* the stored materials catalog
    PROFESSIONALS,  \* the stored professionals catalog
    clock,    \* Date.now(), in milliseconds
    snapshot  \* history: the professionals catalog when the request was received

serverVars ==
    <<openaiConfigured, request, calls, outputText, thrown, responses, partials, COSTINGS>>

storeVars == <<MATERIALS, PROFESSIONALS, clock, snapshot>>

vars == <<pc, arg, totals, plan, norm, norm2, serverVars, storeVars>>

\* the catalogs are empty and the clock is at its origin
StoresEmpty ==
    /\ MATERIALS = <<>>
    /\ PROFESSIONALS = <<>>
    /\ clock = 0
    /\ snapshot = <<>>

\* no request is being handled and nothing is stored
ServerIdle ==
    /\ openaiConfigured = FALSE
    /\ request = [t |-> "undefined"]
    /\ calls = <<>>
    /\ outputText = <<>>
    /\ thrown = [t |-> "undefined"]
    /\ responses = <<>>
    /\ partials = <<>>
    /\ COSTINGS = <<>>
    /\ StoresEmpty

-----------------------------------------------------------------------------
(* JavaScript Numbers                                                      *)

Abs(x) == IF x < 0 THEN -x ELSE x

Min2(a, b) == IF a < b THEN a ELSE b

RECURSIVE GCD(_, _)
GCD(a, b) == IF b = 0 THEN a ELSE GCD(b, a % b)

RECURSIVE Pow10(_)
Pow10(k) == IF k = 0 THEN 1 ELSE 10 * Pow10(k - 1)

NaN == [k |-> "nan", n |-> 0, d |-> 1, e |-> 0]
PosInf == [k |-> "inf", n |-> 1, d |-> 1, e |-> 0]
NegInf == [k |-> "inf", n |-> -1, d |-> 1, e |-> 0]

\* The finite Number n/d * 10^e in canonical form: n and d coprime, d
\* coprime to 10, n not a multiple of 10; zero is 0/1 * 10^0.
RECURSIVE Canon(_, _, _)
Canon(n, d, e) ==
    IF n = 0 THEN [k |-> "fin", n |-> 0, d |-> 1, e |-> 0]
    ELSE LET g == GCD(Abs(n), d) IN
         IF g > 1 THEN Canon(n \div g, d \div g, e)
         ELSE IF n % 10 = 0 THEN Canon(n \div 10, d, e + 1)
         ELSE IF d % 2 = 0 THEN Canon(n * 5, d \div 2, e - 1)
         ELSE IF d % 5 = 0 THEN Canon(n * 2, d \div 5, e - 1)
         ELSE [k |-> "fin", n |-> n, d |-> d, e |-> e]

Whole(n) == Canon(n, 1, 0)
Dec(n, places) == Canon(n, 1, -places)
Exp10(n, e) == Canon(n, 1, e)

IsFinite(a) == a.k = "fin"
IsNaN(a) == a.k = "nan"
IsZero(a) == a.k = "fin" /\ a.n = 0

\* a * b, both finite
Mul(a, b) ==
    LET g1 == GCD(Abs(a.n), b.d)
        g2 == GCD(Abs(b.n), a.d)
    IN  Canon((a.n \div g1) * (b.n \div g2), (a.d \div g2) * (b.d \div g1), a.e + b.e)

\* a + b, both finite
Add(a, b) ==
    LET em == Min2(a.e, b.e)
        g  == GCD(a.d, b.d)
        na == a.n * Pow10(a.e - em) * (b.d \div g)
        nb == b.n * Pow10(b.e - em) * (a.d \div g)
    IN  IF a.n = 0 THEN b
        ELSE IF b.n = 0 THEN a
        ELSE Canon(na + nb, (a.d \div g) * b.d, em)

Neg(a) == [a EXCEPT !.n = -a.n]

Sub(a, b) == Add(a, Neg(b))

\* a / b, both finite, b not zero
Div(a, b) ==
    Mul(a, Canon(IF b.n < 0 THEN -b.d ELSE b.d, Abs(b.n), -b.e))

\* L * 10^k >= R and L * 10^k > R for naturals, without forming L * 10^k
RECURSIVE GeScaled(_, _, _)
GeScaled(L, k, R) == IF k = 0 THEN L >= R ELSE GeScaled(L, k - 1, (R + 9) \div 10)

RECURSIVE GtScaled(_, _, _)
GtScaled(L, k, R) == IF k = 0 THEN L > R ELSE GtScaled(L, k - 1, R \div 10)

\* a < b for positive finite a, b
LtPos(a, b) ==
    LET L == a.n * b.d
        R == b.n * a.d
        k == a.e - b.e
    IN  IF k >= 0 THEN ~GeScaled(L, k, R) ELSE GtScaled(R, -k, L)

\* a < b for any two Numbers other than NaN
Lt(a, b) ==
    IF a.k = "inf" THEN a.n < 0 /\ ~(b.k = "inf" /\ b.n < 0)
    ELSE IF b.k = "inf" THEN b.n > 0
    ELSE IF a.n <= 0 /\ b.n >= 0 THEN a.n < b.n
    ELSE IF a.n >= 0 /\ b.n <= 0 THEN FALSE
    ELSE IF a.n > 0 THEN LtPos(a, b)
    ELSE LtPos(Neg(b), Neg(a))

Le(a, b) == a = b \/ Lt(a, b)

MathMax(a, b) == IF Lt(a, b) THEN b ELSE a

MathMin(a, b) == IF Lt(b, a) THEN b ELSE a

\* Math.round: the nearest integer, ties towards +Infinity
MathRound(a) ==
    IF a.k # "fin" THEN a
    ELSE IF a.d = 1 /\ a.e >= 0 THEN a
    ELSE LET N == IF a.e >= 0 THEN a.n * Pow10(a.e) ELSE a.n
             D == IF a.e >= 0 THEN a.d ELSE a.d * Pow10(-a.e)
         IN  Whole((2 * N + D) \div (2 * D))

-----------------------------------------------------------------------------
(* JavaScript values                                                       *)

Undefined == [t |-> "undefined"]
Null == [t |-> "null"]
Bool(b) == [t |-> "boolean", b |-> b]
Num(x) == [t |-> "number", v |-> x]
Str(s) == [t |-> "string", s |-> s]
Obj(f) == [t |-> "object", f |-> f]
Arr(a) == [t |-> "array", a |-> a]

\* what a thrown TypeError leaves in place of a result
TypeError == [t |-> "TypeError"]

EmptyObj == Obj([x \in {} |-> Undefined])

IsNullish(v) == v.t \in {"undefined", "null"}

\* o.name; the caller has checked that o is not null or undefined
Get(o, name) ==
    IF o.t = "object" /\ name \in DOMAIN o.f THEN o.f[name] ELSE Undefined

\* v ?? dflt
Coalesce(v, dflt) == IF IsNullish(v) THEN dflt ELSE v

Digits == <<"0", "1", "2", "3", "4", "5", "6", "7", "8", "9">>

IsDigit(c) == \E i \in 1..10 : Digits[i] = c

DigitVal(c) == (CHOOSE i \in 1..10 : Digits[i] = c) - 1

RECURSIVE ParseDigits(_, _)
ParseDigits(s, acc) ==
    IF s = <<>> THEN acc ELSE ParseDigits(Tail(s), 10 * acc + DigitVal(Head(s)))

AllDigits(s) == s # <<>> /\ \A i \in 1..Len(s) : IsDigit(s[i])

\* Number(s) for a string of digits, "-" and letters: the empty string is
\* 0, an optionally signed run of digits is that integer, the rest is NaN
StrToNum(s) ==
    IF s = <<>> THEN Whole(0)
    ELSE IF AllDigits(s) THEN Whole(ParseDigits(s, 0))
    ELSE IF Head(s) = "-" /\ AllDigits(Tail(s)) THEN Whole(-ParseDigits(Tail(s), 0))
    ELSE NaN

\* Number(v)
ToNumber(v) ==
    CASE v.t = "undefined" -> NaN
      [] v.t = "null" -> Whole(0)
      [] v.t = "boolean" -> IF v.b THEN Whole(1) ELSE Whole(0)
      [] v.t = "number" -> v.v
      [] v.t = "string" -> StrToNum(v.s)
      [] v.t = "array" ->
            IF v.a = <<>> THEN Whole(0)
            ELSE IF Len(v.a) > 1 THEN NaN
            ELSE IF IsNullish(v.a[1]) THEN Whole(0)
            ELSE IF v.a[1].t = "number" THEN v.a[1].v
            ELSE IF v.a[1].t = "string" THEN StrToNum(v.a[1].s)
            ELSE NaN
      [] OTHER -> NaN

\* the truthiness of v in  v || dflt  and  if (v)
Truthy(v) ==
    CASE v.t = "undefined" -> FALSE
      [] v.t = "null" -> FALSE
      [] v.t = "boolean" -> v.b
      [] v.t = "number" -> ~IsNaN(v.v) /\ ~IsZero(v.v)
      [] v.t = "string" -> v.s # <<>>
      [] OTHER -> TRUE

-----------------------------------------------------------------------------
(* Numeric utilities                                                       *)

\* clampNumber with the fallback for every conversion that is not finite
clampNumberFiniteOnly(n, min, max, fallback) ==
    IF IsFinite(ToNumber(n)) THEN MathMin(max, MathMax(min, ToNumber(n))) ELSE fallback

clampNumber(n, min, max, fallback) ==
    LET x == ToNumber(n)
    IN  IF IsNaN(x) THEN fallback ELSE MathMin(max, MathMax(min, x))

money(n) ==
    LET x == ToNumber(n)
    IN  IF IsNaN(x) THEN Whole(0) ELSE MathRound(x)

-----------------------------------------------------------------------------
(* Totals engine                                                           *)

\* a destructuring default  { name = dflt } : only undefined takes it
DefaultTo(v, dflt) == IF v.t = "undefined" THEN dflt ELSE v

\* professionalBase with the prestational factor left out of the product
professionalBaseNoFactor(p, factorPrestacional) ==
    LET qty        == clampNumber(Coalesce(Get(p, "quantity"), Num(Whole(0))),
                                  Whole(0), Exp10(1, 9), Whole(0))
        months     == clampNumber(Coalesce(Get(p, "months"), Num(Whole(0))),
                                  Whole(0), Exp10(1, 9), Whole(0))
        dedication == clampNumber(Coalesce(Get(p, "dedication"), Num(Whole(1))),
                                  Whole(0), Whole(2), Whole(1))
        monthly    == clampNumber(Coalesce(Get(p, "monthlyValue"), Num(Whole(0))),
                                  Whole(0), Exp10(1, 12), Whole(0))
    IN  Mul(Mul(Mul(qty, months), dedication), monthly)

\* the callback of professionals.reduce, without the accumulator
professionalBase(p, factorPrestacional) ==
    LET qty        == clampNumber(Coalesce(Get(p, "quantity"), Num(Whole(0))),
                                  Whole(0), Exp10(1, 9), Whole(0))
        months     == clampNumber(Coalesce(Get(p, "months"), Num(Whole(0))),
                                  Whole(0), Exp10(1, 9), Whole(0))
        dedication == clampNumber(Coalesce(Get(p, "dedication"), Num(Whole(1))),
                                  Whole(0), Whole(2), Whole(1))
        monthly    == clampNumber(Coalesce(Get(p, "monthlyValue"), Num(Whole(0))),
                                  Whole(0), Exp10(1, 12), Whole(0))
    IN  Mul(Mul(Mul(Mul(qty, months), dedication), monthly), factorPrestacional)

\* the callback of materials.reduce, without the accumulator
materialBase(m) ==
    LET qty       == clampNumber(Coalesce(Get(m, "quantity"), Num(Whole(0))),
                                 Whole(0), Exp10(1, 12), Whole(0))
        unitPrice == clampNumber(Coalesce(Get(m, "unitPrice"), Num(Whole(0))),
                                 Whole(0), Exp10(1, 12), Whole(0))
    IN  Mul(qty, unitPrice)

RECURSIVE reduceProfessionals(_, _, _)
reduceProfessionals(ps, factorPrestacional, acc) ==
    IF ps = <<>> THEN acc
    ELSE reduceProfessionals(Tail(ps), factorPrestacional,
                             Add(acc, professionalBase(Head(ps), factorPrestacional)))

RECURSIVE reduceMaterials(_, _)
reduceMaterials(ms, acc) ==
    IF ms = <<>> THEN acc
    ELSE reduceMaterials(Tail(ms), Add(acc, materialBase(Head(ms))))

\* reduceRaises for a reduce called without its initial value 0: an empty
\* array raises too
reduceRaisesNoInitial(x) ==
    x.t # "array" \/ x.a = <<>> \/ \E i \in 1..Len(x.a) : IsNullish(x.a[i])

\* x.reduce(callback, 0) raises: x has no reduce, or the callback reads a
\* property of a null or undefined element
reduceRaises(x) ==
    x.t # "array" \/ \E i \in 1..Len(x.a) : IsNullish(x.a[i])

\* clampMargenPct with the upper limit 100 in place of 80
clampMargenPctTo100(params) ==
    clampNumber(Coalesce(Get(params, "margenPct"), Num(Whole(30))),
                Whole(0), Whole(100), Whole(30))

\* clampMargenPct with  params.margenPct || 30  in place of  ?? 30
clampMargenPctOr(params) ==
    clampNumber(IF Truthy(Get(params, "margenPct")) THEN Get(params, "margenPct")
                ELSE Num(Whole(30)),
                Whole(0), Whole(80), Whole(30))

\* the parameter clamps of computeTotals
clampFactorPrestacional(params) ==
    clampNumber(Coalesce(Get(params, "factorPrestacional"), Num(Dec(158, 2))),
                Whole(1), Whole(3), Dec(158, 2))

clampImprevistosPct(params) ==
    clampNumber(Coalesce(Get(params, "imprevistosPct"), Num(Whole(5))),
                Whole(0), Whole(40), Whole(5))

clampMargenPct(params) ==
    clampNumber(Coalesce(Get(params, "margenPct"), Num(Whole(30))),
                Whole(0), Whole(80), Whole(30))

\* presupuestoFijo as computeTotals reads it: a clamped number, or null
readPresupuestoFijo(params) ==
    LET raw == Get(params, "presupuestoFijo")
    IN  IF ~IsNullish(raw) /\ raw # Str(<<>>)
        THEN Num(clampNumber(raw, Whole(0), Exp10(1, 15), Whole(0)))
        ELSE Null

\* the offer as the cost net of the margin: costo * (1 - margen)
suggestedOfferNetOfMargin(totalProduccion, margenPct) ==
    Num(Mul(totalProduccion, Sub(Whole(1), Div(margenPct, Whole(100)))))

\* const ofertaSugerida = margenPct >= 100 ? null : totalProduccion / (1 - margenPct / 100)
suggestedOffer(totalProduccion, margenPct) ==
    IF ~Lt(margenPct, Whole(100)) THEN Null
    ELSE Num(Div(totalProduccion, Sub(Whole(1), Div(margenPct, Whole(100)))))

\* possibleMargin as a fraction: the factor 100 left out
possibleMarginFraction(presupuestoFijo, totalProduccion) ==
    IF Truthy(presupuestoFijo) /\ Lt(Whole(0), presupuestoFijo.v)
    THEN Num(Div(Sub(presupuestoFijo.v, totalProduccion), presupuestoFijo.v))
    ELSE Null

\* let margenPosible = null; if (presupuestoFijo && presupuestoFijo > 0) ...
possibleMargin(presupuestoFijo, totalProduccion) ==
    IF Truthy(presupuestoFijo) /\ Lt(Whole(0), presupuestoFijo.v)
    THEN Num(Mul(Div(Sub(presupuestoFijo.v, totalProduccion), presupuestoFijo.v),
                 Whole(100)))
    ELSE Null

\* productionAmounts with the materials left out of subtotalProduccion
productionAmountsNoMaterials(subtotalProfesionales, subtotalMateriales, imprevistosPct) ==
    [subtotalProduccion |-> subtotalProfesionales,
     imprevistos |->
         Mul(subtotalProfesionales, Div(imprevistosPct, Whole(100))),
     totalProduccion |->
         Add(subtotalProfesionales,
             Mul(subtotalProfesionales, Div(imprevistosPct, Whole(100))))]

\* subtotalProduccion, imprevistos and totalProduccion, unrounded
productionAmounts(subtotalProfesionales, subtotalMateriales, imprevistosPct) ==
    [subtotalProduccion |-> Add(subtotalProfesionales, subtotalMateriales),
     imprevistos |->
         Mul(Add(subtotalProfesionales, subtotalMateriales),
             Div(imprevistosPct, Whole(100))),
     totalProduccion |->
         Add(Add(subtotalProfesionales, subtotalMateriales),
             Mul(Add(subtotalProfesionales, subtotalMateriales),
                 Div(imprevistosPct, Whole(100))))]

\* the amounts of computeTotals before money() rounds them
unroundedAmounts(factorPrestacional, imprevistosPct, margenPct, presupuestoFijo, subtotalProfesionales, subtotalMateriales, prod) ==
    [factorPrestacional |-> factorPrestacional,
     imprevistosPct |-> imprevistosPct,
     margenPct |-> margenPct,
     presupuestoFijo |-> presupuestoFijo,
     subtotalProfesionales |-> subtotalProfesionales,
     subtotalMateriales |-> subtotalMateriales,
     subtotalProduccion |-> prod.subtotalProduccion,
     imprevistos |-> prod.imprevistos,
     totalProduccion |-> prod.totalProduccion,
     ofertaSugerida |-> suggestedOffer(prod.totalProduccion, margenPct),
     margenPosible |-> possibleMargin(presupuestoFijo, prod.totalProduccion)]

unroundedOf(professionals, materials, params, subtotalProfesionales, subtotalMateriales) ==
    unroundedAmounts(clampFactorPrestacional(params), clampImprevistosPct(params),
                     clampMargenPct(params), readPresupuestoFijo(params),
                     subtotalProfesionales, subtotalMateriales,
                     productionAmounts(subtotalProfesionales, subtotalMateriales,
                                       clampImprevistosPct(params)))

\* the unrounded amounts of computeTotals, for an argument it does not raise on
unroundedTotals(a) ==
    unroundedOf(DefaultTo(Get(a, "professionals"), Arr(<<>>)),
                DefaultTo(Get(a, "materials"), Arr(<<>>)),
                DefaultTo(Get(a, "params"), EmptyObj),
                reduceProfessionals(
                    DefaultTo(Get(a, "professionals"), Arr(<<>>)).a,
                    clampFactorPrestacional(DefaultTo(Get(a, "params"), EmptyObj)),
                    Whole(0)),
                reduceMaterials(DefaultTo(Get(a, "materials"), Arr(<<>>)).a, Whole(0)))

\* computeTotals raises a TypeError on this argument
computeTotalsRaises(a) ==
    \/ IsNullish(a)
    \/ IsNullish(DefaultTo(Get(a, "params"), EmptyObj))
    \/ reduceRaises(DefaultTo(Get(a, "professionals"), Arr(<<>>)))
    \/ reduceRaises(DefaultTo(Get(a, "materials"), Arr(<<>>)))

\* Math.round(margenPosible * 100) / 100
roundTwoPlaces(x) == Div(MathRound(Mul(x, Whole(100))), Whole(100))

\* roundedTotals with totalProduccion read from the subtotal: the
\* contingency is missing from the returned total
roundedTotalsWithoutContingency(u) ==
    [t |-> "totals",
     factorPrestacional |-> Num(u.factorPrestacional),
     imprevistosPct |-> Num(u.imprevistosPct),
     margenPct |-> Num(u.margenPct),
     presupuestoFijo |-> u.presupuestoFijo,
     subtotalProfesionales |-> Num(money(Num(u.subtotalProfesionales))),
     subtotalMateriales |-> Num(money(Num(u.subtotalMateriales))),
     subtotalProduccion |-> Num(money(Num(u.subtotalProduccion))),
     imprevistos |-> Num(money(Num(u.imprevistos))),
     totalProduccion |-> Num(money(Num(u.subtotalProduccion))),
     ofertaSugerida |->
         IF u.ofertaSugerida = Null THEN Null ELSE Num(money(u.ofertaSugerida)),
     margenPosible |->
         IF u.margenPosible = Null THEN Null
         ELSE Num(roundTwoPlaces(u.margenPosible.v))]

\* the returned object: every amount through money()
roundedTotals(u) ==
    [t |-> "totals",
     factorPrestacional |-> Num(u.factorPrestacional),
     imprevistosPct |-> Num(u.imprevistosPct),
     margenPct |-> Num(u.margenPct),
     presupuestoFijo |-> u.presupuestoFijo,
     subtotalProfesionales |-> Num(money(Num(u.subtotalProfesionales))),
     subtotalMateriales |-> Num(money(Num(u.subtotalMateriales))),
     subtotalProduccion |-> Num(money(Num(u.subtotalProduccion))),
     imprevistos |-> Num(money(Num(u.imprevistos))),
     totalProduccion |-> Num(money(Num(u.totalProduccion))),
     ofertaSugerida |->
         IF u.ofertaSugerida = Null THEN Null ELSE Num(money(u.ofertaSugerida)),
     margenPosible |->
         IF u.margenPosible = Null THEN Null
         ELSE Num(roundTwoPlaces(u.margenPosible.v))]

\* computeTotals({ professionals = [], materials = [], params = {} })
computeTotals(a) ==
    IF computeTotalsRaises(a) THEN TypeError ELSE roundedTotals(unroundedTotals(a))

-----------------------------------------------------------------------------
(* Inputs                                                                  *)

\* the most line items (professionals and materials together) of an input
MaxLines == 2

ProfessionalLine(q, m, d, v) ==
    Obj([quantity |-> Num(q), months |-> Num(m), dedication |-> Num(d),
         monthlyValue |-> Num(v)])

MaterialLine(q, u) == Obj([quantity |-> Num(q), unitPrice |-> Num(u)])

\* professional lines whose four numbers are in range
BoundedProfessionals ==
    {ProfessionalLine(Whole(1), Whole(1), Dec(5, 1), Whole(1)),
     ProfessionalLine(Whole(3), Whole(2), Whole(2), Whole(7))}

\* a professional line that relies on a numeric string and on the default
\* dedication
DefaultedProfessional ==
    Obj([quantity |-> Str(<<"3">>), months |-> Num(Whole(2)),
         monthlyValue |-> Num(Whole(5))])

\* professional lines that rely on the clamps
LooseProfessionals ==
    {Obj([quantity |-> Num(Whole(-1)), months |-> Num(Whole(1)),
          dedication |-> Num(Whole(5)), monthlyValue |-> Str(<<"a">>)]),
     Obj([quantity |-> Num(Whole(1)), months |-> Bool(TRUE),
          dedication |-> Num(Whole(5)), monthlyValue |-> Num(Dec(5, 1))])}

BoundedMaterials ==
    {MaterialLine(Whole(1), Dec(5, 1)), MaterialLine(Whole(3), Whole(7))}

LooseMaterials ==
    {Obj([quantity |-> Str(<<"2">>), unitPrice |-> Num(Dec(25, 2)),
          name |-> Str(<<"a">>)])}

\* the sequences over S of length at most n
SeqUpTo(S, n) == UNION {[1..k -> S] : k \in 0..n}

ParamsOf(f, i, m, pf) ==
    Obj([factorPrestacional |-> f, imprevistosPct |-> i, margenPct |-> m,
         presupuestoFijo |-> pf])

FactorInputs == {Undefined, Num(Whole(1)), Num(Whole(3))}
ImprevistosInputs == {Undefined, Num(Whole(0)), Num(Whole(40))}
MargenInputs == {Undefined, Num(Whole(0)), Num(Whole(80)), Num(Whole(100))}
PresupuestoInputs ==
    {Undefined, Null, Str(<<>>), Num(Whole(0)), Num(Whole(-5)), Num(Whole(3))}

ArgOf(ps, ms, params) ==
    Obj([professionals |-> ps, materials |-> ms, params |-> params])

\* the line items of an input: at most MaxLines in all
LinePairs ==
    {pm \in SeqUpTo(BoundedProfessionals \cup {DefaultedProfessional}, MaxLines)
            \X SeqUpTo(BoundedMaterials, MaxLines) :
        Len(pm[1]) + Len(pm[2]) <= MaxLines}

\* small amounts, every combination of the parameters
SmallArgs ==
    {ArgOf(Arr(pm[1]), Arr(pm[2]), ParamsOf(f, i, m, pf)) :
        pm \in LinePairs, f \in FactorInputs, i \in ImprevistosInputs, m \in MargenInputs,
        pf \in PresupuestoInputs}

\* the worked example of the specification and amounts of its size
ExampleProfessional ==
    ProfessionalLine(Whole(2), Whole(6), Dec(5, 1), Exp10(5, 6))

ExampleArgs ==
    {ArgOf(Arr(<<ExampleProfessional>>), ms,
           ParamsOf(Num(Dec(158, 2)), Num(Whole(5)), m, pf)) :
        ms \in {Arr(<<>>), Arr(<<MaterialLine(Whole(10), Exp10(25, 4))>>)},
        m \in {Num(Whole(0)), Num(Whole(30)), Num(Whole(80))},
        pf \in {Undefined, Num(Exp10(1, 8)), Num(Exp10(4, 7))}}
    \cup
    {ArgOf(ps, Arr(<<MaterialLine(Exp10(1, 13), Whole(2))>>),
           ParamsOf(Num(Dec(158, 2)), Num(Whole(5)), m, Undefined)) :
        ps \in {Arr(<<>>), Arr(<<ExampleProfessional>>)},
        m \in {Num(Whole(0)), Num(Whole(30)), Num(Whole(80))}}

\* numbers beyond the clamps' limits, and values that are not numbers
OversizedArgs ==
    {ArgOf(Arr(<<>>), ms, ParamsOf(f, Undefined, m, pf)) :
        ms \in {Arr(<<>>), Arr(<<MaterialLine(Exp10(1, 13), Whole(2))>>),
                Arr(<<MaterialLine(PosInf, Whole(2))>>)},
        f \in {Undefined, Num(Whole(7)), Num(NaN)},
        m \in {Undefined, Num(Whole(150)), Str(<<"1", "0", "0">>), Str(<<"0">>)},
        pf \in {Undefined, Num(Exp10(2, 15)), Num(PosInf), Str(<<"a">>)}}

LooseArgs ==
    {ArgOf(Arr(ps), Arr(ms), params) :
        ps \in SeqUpTo(LooseProfessionals, 1),
        ms \in SeqUpTo(LooseMaterials, 1),
        params \in {EmptyObj, ParamsOf(Num(Dec(5, 1)), Num(Whole(50)), Num(Whole(-1)),
                                       Bool(TRUE))}}

\* arguments of the wrong shape
MalformedArgs ==
    {ArgOf(ps, ms, params) :
        ps \in {Undefined, Null, Str(<<"a", "b">>), Arr(<<Null>>), Arr(<<Num(Whole(5))>>),
                Arr(<<ProfessionalLine(Whole(3), Whole(2), Whole(2), Whole(7))>>)},
        ms \in {Undefined, Null, EmptyObj, Arr(<<Null>>), Arr(<<>>)},
        params \in {Undefined, Null, Num(Whole(5)), EmptyObj}}

Args == SmallArgs \cup ExampleArgs \cup OversizedArgs \cup LooseArgs \cup MalformedArgs

-----------------------------------------------------------------------------
(* The totals engine applied to an argument                                *)

InitTotals ==
    /\ pc = "call"
    /\ arg \in Args
    /\ totals = Undefined
    /\ plan = Undefined
    /\ norm = Undefined
    /\ norm2 = Undefined
    /\ ServerIdle

CallComputeTotals ==
    /\ pc = "call"
    /\ totals' = computeTotals(arg)
    /\ pc' = "returned"
    /\ UNCHANGED <<arg, plan, norm, norm2, serverVars, storeVars>>

NextTotals == CallComputeTotals

SpecTotals == InitTotals /\ [][NextTotals]_vars

-----------------------------------------------------------------------------
(* Properties of the totals engine                                         *)

Returned == pc = "returned" /\ totals.t = "totals"

Half == Dec(5, 1)

\* r is a whole number at distance at most 1/2 from x
NearestWhole(r, x) ==
    /\ r.k = "fin" /\ r.d = 1 /\ r.e >= 0
    /\ Le(Sub(r, x), Half)
    /\ Le(Sub(x, r), Half)

\* |a - b| <= tol
Within(a, b, tol) == Le(Sub(a, b), tol) /\ Le(Sub(b, a), tol)

\* v is a finite number in [lo, hi]
NumIn(v, lo, hi) ==
    v.t = "number" /\ v.v.k = "fin" /\ Le(lo, v.v) /\ Le(v.v, hi)

\* v is a finite number, at least lo
NumFrom(v, lo) == v.t = "number" /\ v.v.k = "fin" /\ Le(lo, v.v)

HasNumIn(o, name, lo, hi) ==
    o.t = "object" /\ name \in DOMAIN o.f /\ NumIn(o.f[name], lo, hi)

HasNumFrom(o, name, lo) ==
    o.t = "object" /\ name \in DOMAIN o.f /\ NumFrom(o.f[name], lo)

\* the line items and parameters are numbers in the ranges of the data
\* model; with capped, also at most the upper limits the engine clamps to
InputInRange(a, capped) ==
    /\ a.f.professionals.t = "array" /\ a.f.materials.t = "array"
    /\ \A i \in 1..Len(a.f.professionals.a) :
          LET p == a.f.professionals.a[i] IN
          /\ HasNumFrom(p, "quantity", Whole(0))
          /\ HasNumFrom(p, "months", Whole(0))
          /\ HasNumIn(p, "dedication", Whole(0), Whole(2))
          /\ HasNumFrom(p, "monthlyValue", Whole(0))
          /\ capped => /\ Le(p.f.quantity.v, Exp10(1, 9))
                       /\ Le(p.f.months.v, Exp10(1, 9))
                       /\ Le(p.f.monthlyValue.v, Exp10(1, 12))
    /\ \A i \in 1..Len(a.f.materials.a) :
          LET m == a.f.materials.a[i] IN
          /\ HasNumFrom(m, "quantity", Whole(0))
          /\ HasNumFrom(m, "unitPrice", Whole(0))
          /\ capped => /\ Le(m.f.quantity.v, Exp10(1, 12))
                       /\ Le(m.f.unitPrice.v, Exp10(1, 12))
    /\ HasNumIn(a.f.params, "factorPrestacional", Whole(1), Whole(3))
    /\ HasNumIn(a.f.params, "imprevistosPct", Whole(0), Whole(40))
    /\ HasNumIn(a.f.params, "margenPct", Whole(0), Whole(80))

\* sum of quantity * months * dedication * monthlyValue * factor, as written
RECURSIVE StatedProfessionals(_, _)
StatedProfessionals(ps, factor) ==
    IF ps = <<>> THEN Whole(0)
    ELSE LET p == Head(ps).f IN
         Add(Mul(Mul(Mul(Mul(p.quantity.v, p.months.v), p.dedication.v),
                     p.monthlyValue.v), factor),
             StatedProfessionals(Tail(ps), factor))

\* sum of quantity * unitPrice, as written
RECURSIVE StatedMaterials(_)
StatedMaterials(ms) ==
    IF ms = <<>> THEN Whole(0)
    ELSE Add(Mul(Head(ms).f.quantity.v, Head(ms).f.unitPrice.v),
             StatedMaterials(Tail(ms)))

StatedSubtotal(a) ==
    Add(StatedProfessionals(a.f.professionals.a, a.f.params.f.factorPrestacional.v),
        StatedMaterials(a.f.materials.a))

StatedTotal(a) ==
    Mul(StatedSubtotal(a),
        Add(Whole(1), Div(a.f.params.f.imprevistosPct.v, Whole(100))))

TheExample ==
    ArgOf(Arr(<<ExampleProfessional>>), Arr(<<>>),
          ParamsOf(Num(Dec(158, 2)), Num(Whole(5)), Num(Whole(30)), Undefined))

TotalsAsStated(capped) ==
    (pc = "returned" /\ InputInRange(arg, capped)) =>
        /\ totals.t = "totals"
        /\ NearestWhole(totals.subtotalProfesionales.v,
               StatedProfessionals(arg.f.professionals.a,
                                   arg.f.params.f.factorPrestacional.v))
        /\ NearestWhole(totals.subtotalMateriales.v, StatedMaterials(arg.f.materials.a))
        /\ NearestWhole(totals.imprevistos.v,
               Mul(StatedSubtotal(arg), Div(arg.f.params.f.imprevistosPct.v, Whole(100))))
        /\ NearestWhole(totals.totalProduccion.v, StatedTotal(arg))
        /\ totals.ofertaSugerida.t = "number"
        /\ NearestWhole(totals.ofertaSugerida.v,
               Div(StatedTotal(arg),
                   Sub(Whole(1), Div(arg.f.params.f.margenPct.v, Whole(100)))))
        /\ arg = TheExample =>
              /\ totals.subtotalProfesionales = Num(Exp10(474, 5))
              /\ totals.imprevistos = Num(Exp10(237, 4))
              /\ totals.totalProduccion = Num(Exp10(4977, 4))
              /\ totals.ofertaSugerida = Num(Exp10(711, 5))

\* C1 (as amended): for every input whose line items and parameters are
\* numbers in range and at most the engine's clamp limits (quantity and
\* months 1e9, monthlyValue, material quantity and unitPrice 1e12), every
\* returned amount is the stated formula rounded to the whole unit, and the
\* worked example returns 47,400,000 / 2,370,000 / 49,770,000 / 71,100,000.
C1_TotalsFormulaWithinClamps == TotalsAsStated(TRUE)

\* C1 as claimed: the same for every non-negative quantity, months, value
\* and price, however large.
C1_TotalsFormulaAsClaimed == TotalsAsStated(FALSE)

C1_Witness ==
    /\ Returned /\ arg = TheExample
    /\ totals.ofertaSugerida = Num(Exp10(711, 5))

\* the raw value of a parameter of the argument (undefined when params or
\* the parameter is missing)
RawParam(a, name) ==
    IF Get(a, "params").t = "object" THEN Get(Get(a, "params"), name) ELSE Undefined

MargenAtLeast100(a) ==
    /\ ~IsNullish(RawParam(a, "margenPct"))
    /\ ~IsNaN(ToNumber(RawParam(a, "margenPct")))
    /\ Le(Whole(100), ToNumber(RawParam(a, "margenPct")))

\* C4 as claimed: with params.margenPct of 100 or more the returned
\* ofertaSugerida is null.
C4_NullOfferAtFullMargin ==
    (Returned /\ MargenAtLeast100(arg)) => totals.ofertaSugerida = Null

\* C4 (as amended): with params.margenPct of 100 or more the margin is
\* clamped to 80 and the returned ofertaSugerida is not null: it is five
\* times the unrounded totalProduccion, rounded to the whole unit.
C4_OfferAtFullMarginIsClampedTo80 ==
    (Returned /\ MargenAtLeast100(arg)) =>
        /\ totals.margenPct = Num(Whole(80))
        /\ totals.ofertaSugerida.t = "number"
        /\ NearestWhole(totals.ofertaSugerida.v,
                        Mul(Whole(5), unroundedTotals(arg).totalProduccion))

C4_Witness ==
    /\ Returned
    /\ RawParam(arg, "margenPct") = Num(Whole(100))
    /\ Lt(Whole(0), totals.totalProduccion.v)
    /\ totals.ofertaSugerida.t = "number"

\* the margin asked for is the number 0 (or converts to it)
MargenZero(a) ==
    /\ ~IsNullish(RawParam(a, "margenPct"))
    /\ ToNumber(RawParam(a, "margenPct")) = Whole(0)

\* C5: with params.margenPct equal to 0 the returned ofertaSugerida equals
\* the returned totalProduccion, whatever the line items and the other
\* parameters.
C5_OfferEqualsTotalAtZeroMargin ==
    (pc = "returned" /\ totals # TypeError /\ MargenZero(arg)) =>
        totals.ofertaSugerida = totals.totalProduccion

C5_Witness ==
    /\ Returned /\ MargenZero(arg)
    /\ Lt(Whole(0), totals.totalProduccion.v)
    /\ totals.ofertaSugerida = totals.totalProduccion

\* v is an empty array or omitted
EmptyOrOmitted(v) == v = Undefined \/ v = Arr(<<>>)

\* C6: with professionals and materials both empty or omitted, and any
\* parameter set (an object, or omitted), computeTotals returns without
\* error and every amount, ofertaSugerida included, is 0.
C6_EmptyInputGivesZeros ==
    (/\ pc = "returned"
     /\ EmptyOrOmitted(Get(arg, "professionals"))
     /\ EmptyOrOmitted(Get(arg, "materials"))
     /\ Get(arg, "params") # Null) =>
        /\ totals.t = "totals"
        /\ totals.subtotalProfesionales = Num(Whole(0))
        /\ totals.subtotalMateriales = Num(Whole(0))
        /\ totals.subtotalProduccion = Num(Whole(0))
        /\ totals.imprevistos = Num(Whole(0))
        /\ totals.totalProduccion = Num(Whole(0))
        /\ totals.ofertaSugerida = Num(Whole(0))

C6_Witness ==
    /\ Returned
    /\ Get(arg, "professionals") = Undefined /\ Get(arg, "materials") = Arr(<<>>)
    /\ RawParam(arg, "margenPct") = Undefined
    /\ totals.ofertaSugerida = Num(Whole(0))

\* presupuestoFijo is present and converts to a number above 0
PresupuestoPositive(a) ==
    /\ ~IsNullish(RawParam(a, "presupuestoFijo"))
    /\ RawParam(a, "presupuestoFijo") # Str(<<>>)
    /\ ~IsNaN(ToNumber(RawParam(a, "presupuestoFijo")))
    /\ Lt(Whole(0), ToNumber(RawParam(a, "presupuestoFijo")))

\* presupuestoFijo clamped into [0, 1e15]
PresupuestoClamped(a) ==
    IF Lt(Exp10(1, 15), ToNumber(RawParam(a, "presupuestoFijo"))) THEN Exp10(1, 15)
    ELSE ToNumber(RawParam(a, "presupuestoFijo"))

\* C7: margenPosible is (presupuestoFijo - totalProduccion) /
\* presupuestoFijo * 100 to two decimal places (totalProduccion before
\* rounding, presupuestoFijo clamped into [0, 1e15]) exactly when
\* presupuestoFijo is present and above 0; it is null when presupuestoFijo
\* is absent, null, the empty string, zero, negative or not a number.
C7_PossibleMargin ==
    Returned =>
        IF PresupuestoPositive(arg)
        THEN /\ totals.margenPosible.t = "number"
             /\ NearestWhole(Mul(totals.margenPosible.v, Whole(100)),
                    Mul(Div(Sub(PresupuestoClamped(arg),
                                unroundedTotals(arg).totalProduccion),
                            PresupuestoClamped(arg)),
                        Whole(10000)))
        ELSE totals.margenPosible = Null

\* a budget below the production total: the possible margin is negative
C7_Witness ==
    /\ Returned /\ PresupuestoPositive(arg)
    /\ totals.margenPosible.t = "number"
    /\ Lt(totals.margenPosible.v, Whole(0))

\* C8 as claimed: computeTotals never raises, whatever the shape of its
\* argument.
C8_ComputeTotalsNeverRaises == pc = "returned" => totals # TypeError

-----------------------------------------------------------------------------
(* Plan normalization of POST /ai/costeo                                   *)

RECURSIVE DigitsOf(_)
\* the decimal digits of a natural number
DigitsOf(n) ==
    IF n < 10 THEN <<Digits[n + 1]>> ELSE Append(DigitsOf(n \div 10), Digits[(n % 10) + 1])

\* n copies of the character "0"
Zeros(n) == [i \in 1..n |-> "0"]

\* Number.prototype.toString for a positive decimal  n * 10^e  below 1e21
PositiveToStr(n, e) ==
    IF e >= 0 THEN DigitsOf(n) \o Zeros(e)
    ELSE IF Len(DigitsOf(n)) > -e
         THEN SubSeq(DigitsOf(n), 1, Len(DigitsOf(n)) + e) \o <<".">>
              \o SubSeq(DigitsOf(n), Len(DigitsOf(n)) + e + 1, Len(DigitsOf(n)))
         ELSE <<"0", ".">> \o Zeros(-e - Len(DigitsOf(n))) \o DigitsOf(n)

\* String(x) for a Number; a decoded number is a decimal literal (d = 1)
NumToStr(x) ==
    CASE x.k = "nan" -> <<"N", "a", "N">>
      [] x.k = "inf" /\ x.n > 0 -> <<"I", "n", "f", "i", "n", "i", "t", "y">>
      [] x.k = "inf" /\ x.n < 0 -> <<"-", "I", "n", "f", "i", "n", "i", "t", "y">>
      [] x.k = "fin" /\ x.n = 0 -> <<"0">>
      [] x.k = "fin" /\ x.n > 0 /\ x.d = 1 -> PositiveToStr(x.n, x.e)
      [] x.k = "fin" /\ x.n < 0 /\ x.d = 1 -> <<"-">> \o PositiveToStr(-x.n, x.e)

ObjectObject ==
    <<"[", "o", "b", "j", "e", "c", "t", " ", "O", "b", "j", "e", "c", "t", "]">>

RECURSIVE ToStr(_)
RECURSIVE JoinStr(_)
\* Array.prototype.join(","): null and undefined elements give ""
JoinStr(a) ==
    IF a = <<>> THEN <<>>
    ELSE (IF IsNullish(Head(a)) THEN <<>> ELSE ToStr(Head(a)))
         \o (IF Len(a) > 1 THEN <<",">> \o JoinStr(Tail(a)) ELSE <<>>)

\* String(v), which is also v.toString() where v is not null or undefined
ToStr(v) ==
    CASE v.t = "undefined" -> <<"u", "n", "d", "e", "f", "i", "n", "e", "d">>
      [] v.t = "null" -> <<"n", "u", "l", "l">>
      [] v.t = "boolean" ->
            IF v.b THEN <<"t", "r", "u", "e">> ELSE <<"f", "a", "l", "s", "e">>
      [] v.t = "number" -> NumToStr(v.v)
      [] v.t = "string" -> v.s
      [] v.t = "array" -> JoinStr(v.a)
      [] v.t = "object" -> ObjectObject

\* a coercion that quotes its result, as JSON.stringify would
coerceStringQuoted(v) ==
    <<"'">> \o (IF Truthy(v) THEN ToStr(v) ELSE <<>>) \o <<"'">>

\* (v || "").toString()
coerceString(v) == IF Truthy(v) THEN ToStr(v) ELSE <<>>

\* normalizeProfessional with quantity converted but not clamped
normalizeProfessionalUnclamped(p) ==
    Obj([role |-> Str(coerceString(Get(p, "role"))),
         profile |-> Str(coerceString(Get(p, "profile"))),
         quantity |-> Num(ToNumber(Coalesce(Get(p, "quantity"), Num(Whole(0))))),
         dedication |-> Num(clampNumber(Coalesce(Get(p, "dedication"), Num(Whole(1))),
                                        Whole(0), Whole(2), Whole(1))),
         months |-> Num(clampNumber(Coalesce(Get(p, "months"), Num(Whole(0))),
                                    Whole(0), Exp10(1, 9), Whole(0))),
         monthlyValue |-> Num(clampNumber(Coalesce(Get(p, "monthlyValue"), Num(Whole(0))),
                                          Whole(0), Exp10(1, 12), Whole(0))),
         justification |-> Str(coerceString(Get(p, "justification")))])

\* the callback of (plan.professionals || []).map
normalizeProfessional(p) ==
    Obj([role |-> Str(coerceString(Get(p, "role"))),
         profile |-> Str(coerceString(Get(p, "profile"))),
         quantity |-> Num(clampNumber(Coalesce(Get(p, "quantity"), Num(Whole(0))),
                                      Whole(0), Exp10(1, 9), Whole(0))),
         dedication |-> Num(clampNumber(Coalesce(Get(p, "dedication"), Num(Whole(1))),
                                        Whole(0), Whole(2), Whole(1))),
         months |-> Num(clampNumber(Coalesce(Get(p, "months"), Num(Whole(0))),
                                    Whole(0), Exp10(1, 9), Whole(0))),
         monthlyValue |-> Num(clampNumber(Coalesce(Get(p, "monthlyValue"), Num(Whole(0))),
                                          Whole(0), Exp10(1, 12), Whole(0))),
         justification |-> Str(coerceString(Get(p, "justification")))])

\* the callback of (plan.materials || []).map
normalizeMaterial(m) ==
    Obj([name |-> Str(coerceString(Get(m, "name"))),
         unit |-> Str(coerceString(Get(m, "unit"))),
         quantity |-> Num(clampNumber(Coalesce(Get(m, "quantity"), Num(Whole(0))),
                                      Whole(0), Exp10(1, 12), Whole(0))),
         unitPrice |-> Num(clampNumber(Coalesce(Get(m, "unitPrice"), Num(Whole(0))),
                                       Whole(0), Exp10(1, 12), Whole(0))),
         justification |-> Str(coerceString(Get(m, "justification")))])

\* x || []
orEmpty(x) == IF Truthy(x) THEN x ELSE Arr(<<>>)

\* (x || []).map(callback) raises: a truthy x that is not an array has no
\* map, and the callback reads a property of a null element
mapRaises(x) ==
    Truthy(x) /\ (x.t # "array" \/ \E i \in 1..Len(x.a) : IsNullish(x.a[i]))

\* the normalization raises: plan.professionals read from null, or one of
\* the two maps raises
normalizePlanRaises(decoded) ==
    \/ IsNullish(decoded)
    \/ mapRaises(Get(decoded, "professionals"))
    \/ mapRaises(Get(decoded, "materials"))

\* Array.isArray(plan.assumptions) ? plan.assumptions.map(String) : []
normalizeAssumptions(v) ==
    IF v.t = "array" THEN Arr([i \in 1..Len(v.a) |-> Str(ToStr(v.a[i]))])
    ELSE Arr(<<>>)

\* the plan of the response, or the TypeError the handler's catch receives
normalizePlan(decoded) ==
    IF normalizePlanRaises(decoded) THEN TypeError
    ELSE Obj([assumptions |-> normalizeAssumptions(Get(decoded, "assumptions")),
              professionals |->
                  Arr([i \in 1..Len(orEmpty(Get(decoded, "professionals")).a) |->
                          normalizeProfessional(
                              orEmpty(Get(decoded, "professionals")).a[i])]),
              materials |->
                  Arr([i \in 1..Len(orEmpty(Get(decoded, "materials")).a) |->
                          normalizeMaterial(orEmpty(Get(decoded, "materials")).a[i])])])

-----------------------------------------------------------------------------
(* Decoded oracle values                                                   *)

MaxItems == 2

\* a record the oracle's schema asks for
SchemaProfessional ==
    Obj([role |-> Str(<<"p", "m">>), profile |-> Str(<<"x">>),
         quantity |-> Num(Whole(2)), dedication |-> Num(Dec(5, 1)),
         months |-> Num(Whole(6)), monthlyValue |-> Num(Exp10(5, 6)),
         justification |-> Str(<<"j">>)])

\* records off the schema: other types, values out of range, fields missing
LooseProfessional ==
    Obj([role |-> Num(Whole(7)), profile |-> Bool(TRUE),
         quantity |-> Str(<<"3">>), dedication |-> Num(Whole(5)),
         months |-> Num(Whole(-1)), monthlyValue |-> Num(PosInf),
         justification |-> Null])

NestedProfessional ==
    Obj([role |-> EmptyObj, profile |-> Arr(<<Num(Dec(15, 1)), Null, Str(<<"a">>)>>),
         quantity |-> EmptyObj, months |-> Str(<<"a">>)])

DecodedProfessionals ==
    {SchemaProfessional, LooseProfessional, NestedProfessional, Null, Num(Whole(5)),
     Str(<<"x">>)}

SchemaMaterial ==
    Obj([name |-> Str(<<"m">>), unit |-> Str(<<"u">>), quantity |-> Num(Whole(10)),
         unitPrice |-> Num(Exp10(25, 4)), justification |-> Str(<<>>)])

LooseMaterial ==
    Obj([name |-> Num(Whole(-12)), unit |-> Bool(FALSE), quantity |-> Num(Exp10(1, 13)),
         unitPrice |-> Str(<<"-", "4">>)])

DecodedMaterials == {SchemaMaterial, LooseMaterial, Null, Arr(<<>>)}

\* the item lists of a decoded plan: at most MaxItems in all
ItemPairs ==
    {pm \in SeqUpTo(DecodedProfessionals, MaxItems) \X SeqUpTo(DecodedMaterials, MaxItems) :
        Len(pm[1]) + Len(pm[2]) <= MaxItems}

DecodedAssumptions ==
    {Undefined, Str(<<"a">>), Arr(<<>>),
     Arr(<<Str(<<"a">>), Num(Whole(7)), Null, EmptyObj>>)}

\* values in place of a list that are not arrays
NotALists == {Undefined, Null, Num(Whole(0)), Str(<<>>), Str(<<"a", "b">>), EmptyObj,
              Num(Whole(5)), Bool(TRUE)}

PlanOf(as, ps, ms) == Obj([assumptions |-> as, professionals |-> ps, materials |-> ms])

Plans ==
    {Null, Num(Whole(5)), Str(<<"a", "b">>), Bool(TRUE), Arr(<<>>),
     Arr(<<SchemaProfessional>>), EmptyObj}
    \cup {PlanOf(as, Arr(pm[1]), Arr(pm[2])) : as \in DecodedAssumptions, pm \in ItemPairs}
    \cup {PlanOf(Undefined, ps, ms) :
            ps \in NotALists, ms \in {Undefined, EmptyObj, Arr(<<SchemaMaterial>>)}}
    \cup {PlanOf(Undefined, ps, ms) :
            ps \in {Undefined, Arr(<<SchemaProfessional>>)}, ms \in NotALists}

-----------------------------------------------------------------------------
(* The normalization applied to a decoded value, and to its own result     *)

InitNormalize ==
    /\ pc = "decoded"
    /\ plan \in Plans
    /\ arg = Undefined
    /\ totals = Undefined
    /\ norm = Undefined
    /\ norm2 = Undefined
    /\ ServerIdle

NormalizePlan ==
    /\ pc = "decoded"
    /\ norm' = normalizePlan(plan)
    /\ pc' = "normalized"
    /\ UNCHANGED <<arg, totals, plan, norm2, serverVars, storeVars>>

NormalizeAgain ==
    /\ pc = "normalized"
    /\ norm # TypeError
    /\ norm2' = normalizePlan(norm)
    /\ pc' = "renormalized"
    /\ UNCHANGED <<arg, totals, plan, norm, serverVars, storeVars>>

NextNormalize == NormalizePlan \/ NormalizeAgain

SpecNormalize == InitNormalize /\ [][NextNormalize]_vars

-----------------------------------------------------------------------------
(* Properties of the normalization                                         *)

\* C9 as claimed: the normalization never raises, whatever the decoded
\* value, and always produces a normalized plan.
C9_NormalizationNeverRaises == pc = "normalized" => norm # TypeError

\* C10: normalizing an already normalized plan returns the same plan, for
\* every decoded value on which the normalization succeeds.
C10_NormalizationIdempotent == pc = "renormalized" => norm2 = norm

\* a plan the normalization changed (coerced and clamped fields) and then
\* left alone
C10_Witness ==
    /\ pc = "renormalized"
    /\ plan.t = "object"
    /\ Get(plan, "professionals") = Arr(<<LooseProfessional>>)
    /\ Get(plan, "materials") = Arr(<<LooseMaterial>>)
    /\ norm.f.professionals.a[1].f.role = Str(<<"7">>)
    /\ norm.f.professionals.a[1].f.monthlyValue = Num(Exp10(1, 12))
    /\ norm.f.materials.a[1].f.name = Str(<<"-", "1", "2">>)
    /\ norm2 = norm

-----------------------------------------------------------------------------
(* JSON.parse on the oracle's output text                                  *)
(* Texts are sequences of one-character strings.  The grammar covers       *)
(* objects, arrays, strings without escapes, numbers, true, false, null    *)
(* and blanks between tokens.                                              *)

\* the characters of a string literal
Chars(str) == [i \in 1..Len(str) |-> SubSeq(str, i, i)]

RECURSIVE Concat(_)
\* the string made of the characters cs (a property key)
Concat(cs) == IF cs = <<>> THEN "" ELSE Head(cs) \o Concat(Tail(cs))

ParseFail == [ok |-> FALSE, v |-> Undefined, next |-> 0]

Parsed(v, next) == [ok |-> TRUE, v |-> v, next |-> next]

RECURSIVE SkipWs(_, _)
\* the first position from i on that holds no blank (Len + 1 when none)
SkipWs(s, i) == IF i <= Len(s) /\ s[i] = " " THEN SkipWs(s, i + 1) ELSE i

RECURSIVE DigitsEnd(_, _)
\* the first position from i on that holds no digit
DigitsEnd(s, i) == IF i <= Len(s) /\ IsDigit(s[i]) THEN DigitsEnd(s, i + 1) ELSE i

RECURSIVE QuoteAt(_, _)
\* the position of the next double quote from i on (0 when none)
QuoteAt(s, i) ==
    IF i > Len(s) THEN 0 ELSE IF s[i] = "\"" THEN i ELSE QuoteAt(s, i + 1)

\* s holds the characters of word from position i
HasWord(s, i, word) ==
    i + Len(word) - 1 <= Len(s) /\ SubSeq(s, i, i + Len(word) - 1) = Chars(word)

\* the largest decimal exponent of a finite double; a literal beyond it
\* decodes to Infinity
MaxDecimalExponent == 308

\* the Number of the literal  sign intDigits . fracDigits e expo
NumberOf(negative, intDigits, fracDigits, expo) ==
    IF ParseDigits(intDigits \o fracDigits, 0) = 0 THEN Whole(0)
    ELSE IF expo + Len(intDigits) - 1 > MaxDecimalExponent
    THEN (IF negative THEN NegInf ELSE PosInf)
    ELSE Canon((IF negative THEN -1 ELSE 1) * ParseDigits(intDigits \o fracDigits, 0),
               1, expo - Len(fracDigits))

\* the exponent part of a number literal starting at i (after the fraction)
ParseExponent(s, i) ==
    IF i <= Len(s) /\ s[i] \in {"e", "E"}
    THEN LET j == IF i + 1 <= Len(s) /\ s[i + 1] \in {"+", "-"} THEN i + 2 ELSE i + 1
             k == DigitsEnd(s, j)
         IN  IF k = j THEN [ok |-> FALSE, expo |-> 0, next |-> i]
             ELSE [ok |-> TRUE,
                   expo |-> (IF s[j - 1] = "-" THEN -1 ELSE 1)
                            * ParseDigits(SubSeq(s, j, k - 1), 0),
                   next |-> k]
    ELSE [ok |-> TRUE, expo |-> 0, next |-> i]

\* the fraction part of a number literal starting at i (after the integer)
ParseFraction(s, i) ==
    IF i <= Len(s) /\ s[i] = "."
    THEN IF DigitsEnd(s, i + 1) = i + 1 THEN [ok |-> FALSE, digits |-> <<>>, next |-> i]
         ELSE [ok |-> TRUE, digits |-> SubSeq(s, i + 1, DigitsEnd(s, i + 1) - 1),
               next |-> DigitsEnd(s, i + 1)]
    ELSE [ok |-> TRUE, digits |-> <<>>, next |-> i]

\* a number literal at i:  -? (0 | [1-9][0-9]*) (. [0-9]+)? ([eE] [+-]? [0-9]+)?
ParseNumber(s, i) ==
    LET negative == s[i] = "-"
        j == IF negative THEN i + 1 ELSE i
        k == DigitsEnd(s, j)
    IN  IF k = j \/ (s[j] = "0" /\ k > j + 1) THEN ParseFail
        ELSE LET frac == ParseFraction(s, k)
                 ex == ParseExponent(s, frac.next)
             IN  IF ~frac.ok \/ ~ex.ok THEN ParseFail
                 ELSE Parsed(Num(NumberOf(negative, SubSeq(s, j, k - 1), frac.digits,
                                          ex.expo)),
                             ex.next)

\* a string literal whose opening quote is at i
ParseString(s, i) ==
    IF QuoteAt(s, i + 1) = 0 THEN ParseFail
    ELSE Parsed(Str(SubSeq(s, i + 1, QuoteAt(s, i + 1) - 1)), QuoteAt(s, i + 1) + 1)

\* the fields f with key set to v (a repeated key keeps the last value)
WithField(f, key, v) ==
    [x \in DOMAIN f \cup {key} |-> IF x = key THEN v ELSE f[x]]

RECURSIVE ParseValue(_, _)
RECURSIVE ParseElements(_, _, _)
RECURSIVE ParseMembers(_, _, _)

\* the elements of an array after "[" or ",": value, then "," or "]"
ParseElements(s, i, acc) ==
    LET r == ParseValue(s, i)
        j == SkipWs(s, r.next)
    IN  IF ~r.ok \/ j > Len(s) THEN ParseFail
        ELSE IF s[j] = "]" THEN Parsed(Arr(Append(acc, r.v)), j + 1)
        ELSE IF s[j] = "," THEN ParseElements(s, j + 1, Append(acc, r.v))
        ELSE ParseFail

\* the members of an object after "{" or ",": "key" : value, then "," or "}"
ParseMembers(s, i, f) ==
    LET k == SkipWs(s, i)
        key == IF k <= Len(s) /\ s[k] = "\"" THEN ParseString(s, k) ELSE ParseFail
        c == SkipWs(s, key.next)
    IN  IF ~key.ok \/ c > Len(s) \/ s[c] # ":" THEN ParseFail
        ELSE LET r == ParseValue(s, c + 1)
                 j == SkipWs(s, r.next)
             IN  IF ~r.ok \/ j > Len(s) THEN ParseFail
                 ELSE IF s[j] = "}"
                 THEN Parsed(Obj(WithField(f, Concat(key.v.s), r.v)), j + 1)
                 ELSE IF s[j] = ","
                 THEN ParseMembers(s, j + 1, WithField(f, Concat(key.v.s), r.v))
                 ELSE ParseFail

\* one JSON value starting at the first non-blank position from i on
ParseValue(s, i) ==
    LET j == SkipWs(s, i) IN
    IF j > Len(s) THEN ParseFail
    ELSE IF s[j] = "{"
    THEN (IF SkipWs(s, j + 1) <= Len(s) /\ s[SkipWs(s, j + 1)] = "}"
          THEN Parsed(EmptyObj, SkipWs(s, j + 1) + 1)
          ELSE ParseMembers(s, j + 1, EmptyObj.f))
    ELSE IF s[j] = "["
    THEN (IF SkipWs(s, j + 1) <= Len(s) /\ s[SkipWs(s, j + 1)] = "]"
          THEN Parsed(Arr(<<>>), SkipWs(s, j + 1) + 1)
          ELSE ParseElements(s, j + 1, <<>>))
    ELSE IF s[j] = "\"" THEN ParseString(s, j)
    ELSE IF HasWord(s, j, "null") THEN Parsed(Null, j + 4)
    ELSE IF HasWord(s, j, "true") THEN Parsed(Bool(TRUE), j + 4)
    ELSE IF HasWord(s, j, "false") THEN Parsed(Bool(FALSE), j + 5)
    ELSE IF s[j] = "-" \/ IsDigit(s[j]) THEN ParseNumber(s, j)
    ELSE ParseFail

\* JSON.parse(text) raises a SyntaxError
JSONParseRaises(text) ==
    ~ParseValue(text, 1).ok \/ SkipWs(text, ParseValue(text, 1).next) <= Len(text)

\* JSON.parse(text), where it does not raise
JSONParse(text) == ParseValue(text, 1).v

-----------------------------------------------------------------------------
(* POST /ai/costeo: the structured-output handler                          *)
(* A source text is modelled by its length, the only thing the handler     *)
(* reads of it; the prompt it builds goes to the oracle, whose answer is   *)
(* any of OracleAnswers or any of OracleErrors.                            *)

MAX_IA_INPUT_CHARS == 120000

\* outputText.slice(0, 2000)
ExcerptChars == 2000

\* a response: res.status(status).json(body)
Response(status, body) == [status |-> status, body |-> body]

\* `${objectText}\n\n${metodologiaText}\n\n${tdrText}\n\n${notes}`.length
combinedLength(body) ==
    body.objectText + 2 + body.metodologiaText + 2 + body.tdrText + 2 + body.notes

\* { ...params, factorPrestacional, imprevistosPct, margenPct }
costeoParams(params) ==
    Obj(WithField(
            WithField(
                WithField(IF params.t = "object" THEN params.f ELSE EmptyObj.f,
                          "factorPrestacional", Num(clampFactorPrestacional(params))),
                "imprevistosPct", Num(clampImprevistosPct(params))),
            "margenPct", Num(clampMargenPct(params))))

\* costeoTotals with the parameters read from the oracle's output
costeoTotalsFromOracle(decoded, params) ==
    computeTotals(ArgOf(normalizePlan(decoded).f.professionals,
                        normalizePlan(decoded).f.materials,
                        costeoParams(Get(decoded, "params"))))

\* const totals = computeTotals({ professionals, materials, params: {...} })
costeoTotals(decoded, params) ==
    computeTotals(ArgOf(normalizePlan(decoded).f.professionals,
                        normalizePlan(decoded).f.materials,
                        costeoParams(params)))

\* what the handler throws where it reads a property of null
TypeErrorThrown == Obj([message |-> Str(Chars("TypeError"))])

\* catchStatus reading the error's own status only: err?.status || 500
catchStatusOwnOnly(err) ==
    IF Truthy(Get(err, "status")) THEN Get(err, "status") ELSE Num(Whole(500))

\* const status = err?.status || err?.response?.status || 500
catchStatus(err) ==
    IF Truthy(Get(err, "status")) THEN Get(err, "status")
    ELSE IF Truthy(Get(Get(err, "response"), "status"))
    THEN Get(Get(err, "response"), "status")
    ELSE Num(Whole(500))

\* const msg = err?.message || "Error desconocido"
catchMessage(err) ==
    IF Truthy(Get(err, "message")) THEN Get(err, "message")
    ELSE Str(Chars("Error desconocido"))

\* the catch block: 429 and 401 are passed on, the rest is answered 500
catchResponse(err) ==
    IF catchStatus(err) = Num(Whole(429))
    THEN Response(429, [error |-> "Limite alcanzado (429).", raw |-> catchMessage(err)])
    ELSE IF catchStatus(err) = Num(Whole(401))
    THEN Response(401, [error |-> "No autorizado (401).", raw |-> catchMessage(err)])
    ELSE Response(500,
                  [error |-> "Error en IA",
                   detail |-> IF Get(Get(err, "response"), "data").t = "string"
                                 /\ Truthy(Get(Get(err, "response"), "data"))
                              THEN Get(Get(err, "response"), "data")
                              ELSE catchMessage(err)])

\* the size test with >= in place of >
tooLargeAtCeiling(body) == combinedLength(body) >= MAX_IA_INPUT_CHARS

\* if (combined.length > MAX_IA_INPUT_CHARS)
tooLarge(body) == combinedLength(body) > MAX_IA_INPUT_CHARS

\* catalogs.materials.slice(0, MAX_CATALOG_ITEMS)
MAX_CATALOG_ITEMS == 5000

\* mats.slice(0, 400)
MATERIALS_IN_PROMPT == 400

\* pros.slice(0, 300)
PROFESSIONALS_IN_PROMPT == 300

\* list.slice(0, n)
firstItems(list, n) == SubSeq(list, 1, Min2(n, Len(list)))

\* catalogs?.[name] && Array.isArray(catalogs[name])
\*     ? catalogs[name].slice(0, MAX_CATALOG_ITEMS) : stored
catalogOf(body, name, stored) ==
    IF Get(body.catalogs, name).t = "array"
    THEN firstItems(Get(body.catalogs, name).a, MAX_CATALOG_ITEMS)
    ELSE stored

\* mats.slice(0, 400).map(m => ({ name, unit, unitPrice }))
matsCompact(mats) ==
    [i \in 1..Len(firstItems(mats, MATERIALS_IN_PROMPT)) |->
        Obj([name |-> Get(mats[i], "name"), unit |-> Get(mats[i], "unit"),
             unitPrice |-> Get(mats[i], "unitPrice")])]

\* the sample of professionals without its limit
prosCompactWhole(pros) ==
    [i \in 1..Len(pros) |->
        Obj([role |-> Get(pros[i], "role"), monthlyRef |-> Get(pros[i], "monthlyRef")])]

\* pros.slice(0, 300).map(p => ({ role, monthlyRef }))
prosCompact(pros) ==
    [i \in 1..Len(firstItems(pros, PROFESSIONALS_IN_PROMPT)) |->
        Obj([role |-> Get(pros[i], "role"), monthlyRef |-> Get(pros[i], "monthlyRef")])]

\* the map reads a property of an entry that is null or undefined
compactRaises(list, n) == \E i \in 1..Len(firstItems(list, n)) : IsNullish(list[i])

\* building the samples from the catalogs of the request raises
catalogsRaise(body) ==
    \/ compactRaises(catalogOf(body, "materials", <<>>), MATERIALS_IN_PROMPT)
    \/ compactRaises(catalogOf(body, "professionals", <<>>), PROFESSIONALS_IN_PROMPT)

\* the synchronous part of the handler, up to the oracle call, answers
\* the request itself
costeoRejects(configured, body) ==
    \/ ~configured
    \/ tooLarge(body)
    \/ catalogsRaise(body)
    \/ body.params = Null

\* the oracle call: the prompt carries the samples of both catalogs and the
\* four source texts whole; like every call of the log, it is not answered yet
costeoCall(body, materials, professionals) ==
    [purpose |-> "structured", chunk |-> 0,
     input |-> [objectText |-> body.objectText, metodologiaText |-> body.metodologiaText,
                tdrText |-> body.tdrText, notes |-> body.notes,
                prosCompact |-> prosCompact(catalogOf(body, "professionals", professionals)),
                matsCompact |-> matsCompact(catalogOf(body, "materials", materials))],
     answer |-> Undefined]

\* the response of the synchronous part when it answers the request
costeoRejection(configured, body) ==
    IF ~configured
    THEN Response(503, [error |-> "OpenAI no esta configurado en el backend."])
    ELSE IF tooLarge(body)
    THEN Response(413, [error |-> "El texto enviado es demasiado grande para IA.",
                        receivedChars |-> combinedLength(body),
                        maxChars |-> MAX_IA_INPUT_CHARS])
    ELSE catchResponse(TypeErrorThrown)

\* const outputText = resp.output_text || ""
outputTextOf(resp) ==
    IF Truthy(Get(resp, "output_text")) THEN Get(resp, "output_text").s ELSE <<>>

\* the handler after the oracle answered with text: decode, normalize,
\* compute the totals, respond
costeoAnswer(text, params) ==
    IF JSONParseRaises(text)
    THEN Response(502, [error |-> "La IA devolvio una respuesta que no es JSON valido.",
                        detail |-> SubSeq(text, 1, Min2(Len(text), ExcerptChars))])
    ELSE IF normalizePlanRaises(JSONParse(text)) THEN catchResponse(TypeErrorThrown)
    ELSE Response(200, [status |-> "ok",
                        plan |-> normalizePlan(JSONParse(text)),
                        totals |-> costeoTotals(JSONParse(text), params)])

-----------------------------------------------------------------------------
(* Requests, oracle answers and oracle errors                              *)

SchemaPlanText ==
    Chars("{\"assumptions\":[\"a\"],\"professionals\":[{\"role\":\"pm\",\"profile\":\"x\",\"quantity\":2,\"dedication\":0.5,\"months\":6,\"monthlyValue\":5000000,\"justification\":\"j\"}],\"materials\":[{\"name\":\"m\",\"unit\":\"u\",\"quantity\":10,\"unitPrice\":250000,\"justification\":\"\"}]}")

\* a plan that also echoes parameters and totals of its own
EchoPlanText ==
    Chars("{\"params\":{\"margenPct\":0,\"factorPrestacional\":3,\"presupuestoFijo\":5},\"totals\":{\"totalProduccion\":1},\"factorPrestacional\":2,\"professionals\":[{\"role\":\"pm\",\"quantity\":1,\"months\":2,\"monthlyValue\":1000}],\"materials\":[],\"assumptions\":[]}")

\* values off the schema: other types, out of range, missing
LoosePlanText ==
    Chars("{\"professionals\":[{\"role\":7,\"profile\":true,\"quantity\":\"3\",\"dedication\":5,\"months\":-1,\"monthlyValue\":1e999,\"justification\":null},{\"quantity\":-2,\"months\":3,\"monthlyValue\":\"x\"},5],\"materials\":[{\"name\":-12,\"quantity\":1e13,\"unitPrice\":\"-4\"},{\"quantity\":3,\"unitPrice\":0.5}],\"assumptions\":\"none\"}")

\* the plan wrapped in commentary
WrappedPlanText == Chars("Here is the plan: ") \o SchemaPlanText \o Chars(" Thanks!")

\* a text longer than the excerpt of the 502 response
LongText == [i \in 1..(ExcerptChars + 1) |-> "x"]

OracleTexts ==
    {SchemaPlanText, EchoPlanText, LoosePlanText, WrappedPlanText, LongText,
     Chars(" ") \o SchemaPlanText \o Chars(" ")}
    \cup {Chars(t) : t \in {"", "no json here", "}{", "{", "null", "5", "[]", "{}",
                            "\"plan\"", "{\"professionals\":{}}",
                            "{\"professionals\":[null]}", "{\"materials\":\"ab\"}",
                            "{\"professionals\":0,\"materials\":null}",
                            "Sure! {\"professionals\":[]} {\"materials\":[]}"}}

\* what responses.create resolves to: an object with or without output_text
OracleAnswers ==
    {Obj([output_text |-> Str(t)]) : t \in OracleTexts} \cup {EmptyObj, Obj([output_text |-> Null])}

\* what responses.create rejects with: API errors with a status, errors
\* carrying a response, a timeout without status, and odd values
OracleErrors ==
    {Obj([status |-> Num(Whole(st)), message |-> Str(Chars("api"))]) :
        st \in {429, 401, 400, 413, 500, 502, 503}}
    \cup {Obj([response |-> Obj([status |-> Num(Whole(st)), data |-> Str(Chars("d"))])]) :
            st \in {429, 401, 404}}
    \cup {Obj([message |-> Str(Chars("Request timed out."))]), Null,
          Obj([status |-> Str(Chars("429"))]), Str(Chars("rate"))}

CosteoTextLengths ==
    {[objectText |-> o, metodologiaText |-> m, tdrText |-> 0, notes |-> n] :
        o \in {0, MAX_IA_INPUT_CHARS - 7, MAX_IA_INPUT_CHARS - 6, MAX_IA_INPUT_CHARS - 5},
        m \in {0, 1}, n \in {0}}

CosteoParams ==
    {Undefined, Null, EmptyObj, Num(Whole(5)),
     ParamsOf(Num(Dec(158, 2)), Num(Whole(5)), Num(Whole(30)), Undefined),
     ParamsOf(Num(Whole(7)), Undefined, Num(Whole(150)), Num(Exp10(2, 5)))}

\* req.body of POST /ai/costeo
CosteoBody(lengths, params, catalogs) ==
    [objectText |-> lengths.objectText, metodologiaText |-> lengths.metodologiaText,
     tdrText |-> lengths.tdrText, notes |-> lengths.notes, params |-> params,
     catalogs |-> catalogs]

\* entry i of a materials catalog
MaterialEntry(i, source) ==
    Obj([id |-> Num(Whole(i)), name |-> Str(<<"m">>), unit |-> Str(<<"u">>),
         unitPrice |-> Num(Whole(i)), source |-> Str(source)])

\* entry i of a professionals catalog
ProfessionalEntry(i, source) ==
    Obj([id |-> Num(Whole(i)), role |-> Str(<<"r">>), monthlyRef |-> Num(Whole(i)),
         source |-> Str(source)])

\* the entries beyond the limit of the sample, in each catalog modelled
MaxExtraEntries == 1

MaterialsCatalog(source) ==
    [i \in 1..(MATERIALS_IN_PROMPT + MaxExtraEntries) |-> MaterialEntry(i, source)]

ProfessionalsCatalog(source) ==
    [i \in 1..(PROFESSIONALS_IN_PROMPT + MaxExtraEntries) |-> ProfessionalEntry(i, source)]

\* the catalogs a request brings along: both, one, one that is not a list,
\* one with an entry that is null
CosteoCatalogs ==
    {Obj([materials |-> Arr(MaterialsCatalog(<<"r", "e", "q">>)),
          professionals |-> Arr(ProfessionalsCatalog(<<"r", "e", "q">>))]),
     Obj([professionals |-> Arr(<<ProfessionalEntry(7, <<"r", "e", "q">>)>>)]),
     Obj([materials |-> Str(<<"a", "b", "c">>)]),
     Obj([materials |-> Arr(<<MaterialEntry(1, <<"r", "e", "q">>), Null>>)])}

CosteoRequests ==
    {CosteoBody(l, p, Undefined) : l \in CosteoTextLengths, p \in CosteoParams}
    \cup {CosteoBody([objectText |-> 10, metodologiaText |-> 0, tdrText |-> 0, notes |-> 0],
                      EmptyObj, c) : c \in CosteoCatalogs}

\* what the stores hold when the request arrives: nothing, or catalogs
\* longer than the samples and one costing
StoredCatalogs ==
    {[MATERIALS |-> <<>>, PROFESSIONALS |-> <<>>, COSTINGS |-> <<>>],
     [MATERIALS |-> MaterialsCatalog(<<"d", "b">>),
      PROFESSIONALS |-> ProfessionalsCatalog(<<"d", "b">>),
      COSTINGS |-> <<Obj([id |-> Str(<<"c", "1">>), totals |-> EmptyObj])>>]}

-----------------------------------------------------------------------------
(* One request through the structured-output handler                       *)

InitCosteo ==
    /\ pc = "request"
    /\ openaiConfigured \in BOOLEAN
    /\ request \in CosteoRequests
    /\ calls = <<>>
    /\ outputText = <<>>
    /\ thrown = Undefined
    /\ responses = <<>>
    /\ partials = <<>>
    /\ \E stored \in StoredCatalogs :
          /\ MATERIALS = stored.MATERIALS
          /\ PROFESSIONALS = stored.PROFESSIONALS
          /\ COSTINGS = stored.COSTINGS
    /\ clock = 0
    /\ snapshot = <<>>
    /\ arg = Undefined
    /\ totals = Undefined
    /\ plan = Undefined
    /\ norm = Undefined
    /\ norm2 = Undefined

\* a handler that keeps the catalogs of the request in the stores
CosteoRequestStoresCatalogs ==
    /\ pc = "request"
    /\ ~costeoRejects(openaiConfigured, request)
    /\ calls' = Append(calls, costeoCall(request, MATERIALS, PROFESSIONALS))
    /\ MATERIALS' = catalogOf(request, "materials", MATERIALS)
    /\ PROFESSIONALS' = catalogOf(request, "professionals", PROFESSIONALS)
    /\ pc' = "awaitOracle"
    /\ UNCHANGED <<arg, totals, plan, norm, norm2, openaiConfigured, request, outputText,
                   partials, COSTINGS, responses, thrown, clock, snapshot>>

\* the handler up to its await: it answers 503, 413 or 500 itself, or
\* issues the oracle call
CosteoRequest ==
    /\ pc = "request"
    /\ IF costeoRejects(openaiConfigured, request)
       THEN /\ responses' = Append(responses, costeoRejection(openaiConfigured, request))
            /\ thrown' = IF costeoRejection(openaiConfigured, request).status = 500
                         THEN TypeErrorThrown ELSE thrown
            /\ pc' = "responded"
            /\ UNCHANGED calls
       ELSE /\ calls' = Append(calls, costeoCall(request, MATERIALS, PROFESSIONALS))
            /\ pc' = "awaitOracle"
            /\ UNCHANGED <<responses, thrown>>
    /\ UNCHANGED <<arg, totals, plan, norm, norm2, openaiConfigured, request, outputText,
                   partials, COSTINGS, storeVars>>

\* responses.create resolves: the rest of the handler runs to its response
OracleAnswersCosteo ==
    /\ pc = "awaitOracle"
    /\ \E resp \in OracleAnswers :
          /\ outputText' = outputTextOf(resp)
          /\ responses' = Append(responses, costeoAnswer(outputTextOf(resp), request.params))
          /\ plan' = IF JSONParseRaises(outputTextOf(resp)) THEN plan
                     ELSE JSONParse(outputTextOf(resp))
          /\ norm' = IF JSONParseRaises(outputTextOf(resp)) THEN norm
                     ELSE normalizePlan(JSONParse(outputTextOf(resp)))
          /\ calls' = [calls EXCEPT ![Len(calls)].answer = resp]
    /\ thrown' = IF norm' = TypeError THEN TypeErrorThrown ELSE thrown
    /\ totals' = IF responses'[Len(responses')].status = 200
                 THEN responses'[Len(responses')].body.totals ELSE totals
    /\ pc' = "responded"
    /\ UNCHANGED <<arg, norm2, openaiConfigured, request, partials, COSTINGS, storeVars>>

\* a handler without its catch block: a rejected call ends it unanswered
OracleFailsCosteoUncaught ==
    /\ pc = "awaitOracle"
    /\ \E err \in OracleErrors : thrown' = err
    /\ pc' = "failed"
    /\ UNCHANGED <<arg, totals, plan, norm, norm2, openaiConfigured, request, calls,
                   outputText, partials, COSTINGS, storeVars, responses>>

\* responses.create rejects: the catch block answers
OracleFailsCosteo ==
    /\ pc = "awaitOracle"
    /\ \E err \in OracleErrors :
          /\ thrown' = err
          /\ responses' = Append(responses, catchResponse(err))
    /\ pc' = "responded"
    /\ UNCHANGED <<arg, totals, plan, norm, norm2, openaiConfigured, request, calls,
                   outputText, partials, COSTINGS, storeVars>>

NextCosteo == CosteoRequest \/ OracleAnswersCosteo \/ OracleFailsCosteo

SpecCosteo == InitCosteo /\ [][NextCosteo]_vars

-----------------------------------------------------------------------------
(* Properties of the structured-output handler                             *)

\* the request has been answered
Responded == pc = "responded" /\ responses # <<>>

\* the response sent last
LastResponse == responses[Len(responses)]

\* the request has been answered with a plan
Succeeded == Responded /\ LastResponse.status = 200

\* a professional line of the data model
ProfessionalInBounds(p) ==
    /\ HasNumFrom(p, "quantity", Whole(0))
    /\ HasNumFrom(p, "months", Whole(0))
    /\ HasNumIn(p, "dedication", Whole(0), Whole(2))
    /\ HasNumFrom(p, "monthlyValue", Whole(0))
    /\ \A name \in {"role", "profile", "justification"} :
          name \in DOMAIN p.f /\ p.f[name].t = "string"

\* a material line of the data model
MaterialInBounds(m) ==
    /\ HasNumFrom(m, "quantity", Whole(0))
    /\ HasNumFrom(m, "unitPrice", Whole(0))
    /\ \A name \in {"name", "unit", "justification"} :
          name \in DOMAIN m.f /\ m.f[name].t = "string"

\* C11: in every successful response every professional line has quantity,
\* months and monthlyValue >= 0 and dedication in [0,2], every material line
\* has quantity and unitPrice >= 0, and every string field is a string,
\* whatever the oracle emitted.
C11_SuccessfulPlanWithinBounds ==
    Succeeded =>
        /\ \A i \in 1..Len(LastResponse.body.plan.f.professionals.a) :
              ProfessionalInBounds(LastResponse.body.plan.f.professionals.a[i])
        /\ \A i \in 1..Len(LastResponse.body.plan.f.materials.a) :
              MaterialInBounds(LastResponse.body.plan.f.materials.a[i])

\* the oracle emitted a negative quantity, an oversized value, a string in a
\* numeric field and a number in a string field, and the request succeeded
C11_Witness ==
    /\ Succeeded
    /\ outputText = LoosePlanText
    /\ LastResponse.body.plan.f.professionals.a[2].f.quantity = Num(Whole(0))
    /\ LastResponse.body.plan.f.professionals.a[1].f.role = Str(<<"7">>)
    /\ LastResponse.body.plan.f.materials.a[1].f.quantity = Num(Exp10(1, 12))

\* C12: with the oracle configured, the request is answered 413 exactly
\* when the combined text is longer than the ceiling; the 413 carries
\* receivedChars and maxChars and no oracle call is issued; a text of
\* exactly the ceiling goes to the oracle, whole.
C12_TooLargeExactlyAboveCeiling ==
    (pc # "request" /\ openaiConfigured) =>
        /\ (\E i \in 1..Len(responses) : responses[i].status = 413)
              <=> combinedLength(request) > MAX_IA_INPUT_CHARS
        /\ combinedLength(request) > MAX_IA_INPUT_CHARS =>
              /\ calls = <<>>
              /\ responses =
                     <<Response(413,
                                [error |-> "El texto enviado es demasiado grande para IA.",
                                 receivedChars |-> combinedLength(request),
                                 maxChars |-> MAX_IA_INPUT_CHARS])>>
        /\ (/\ combinedLength(request) <= MAX_IA_INPUT_CHARS
            /\ request.params # Null /\ ~catalogsRaise(request)) =>
              /\ Len(calls) = 1
              /\ calls[1].input.objectText = request.objectText
              /\ calls[1].input.metodologiaText = request.metodologiaText
              /\ calls[1].input.tdrText = request.tdrText
              /\ calls[1].input.notes = request.notes

\* one character above the ceiling is rejected
C12_Witness ==
    /\ Responded /\ openaiConfigured
    /\ combinedLength(request) = MAX_IA_INPUT_CHARS + 1
    /\ LastResponse.status = 413
    /\ LastResponse.body.receivedChars = MAX_IA_INPUT_CHARS + 1

\* text.indexOf(c): the first position of c, from 0, or -1
indexOf(text, c) ==
    IF \E i \in 1..Len(text) : text[i] = c
    THEN (CHOOSE i \in 1..Len(text) : text[i] = c /\ \A j \in 1..(i - 1) : text[j] # c) - 1
    ELSE -1

\* text.lastIndexOf(c): the last position of c, from 0, or -1
lastIndexOf(text, c) ==
    IF \E i \in 1..Len(text) : text[i] = c
    THEN (CHOOSE i \in 1..Len(text) :
              text[i] = c /\ \A j \in (i + 1)..Len(text) : text[j] # c) - 1
    ELSE -1

\* text.slice(from, to) for 0 <= from, to <= text.length
slice(text, from, to) == SubSeq(text, from + 1, to)

\* the brace salvage: the text from the first "{" to the last "}", or "{}"
salvagedText(text) ==
    IF indexOf(text, "{") >= 0 /\ lastIndexOf(text, "}") >= 0
    THEN slice(text, indexOf(text, "{"), lastIndexOf(text, "}") + 1)
    ELSE Chars("{}")

\* text is not JSON but holds a JSON object between its first "{" and its
\* last "}"
WrapsAnObject(text) ==
    /\ JSONParseRaises(text)
    /\ indexOf(text, "{") >= 0 /\ lastIndexOf(text, "}") >= 0
    /\ ~JSONParseRaises(salvagedText(text))

\* C13 as claimed: when the oracle's text is not JSON but wraps a JSON
\* object in commentary, the handler decodes the text from the first "{" to
\* the last "}" and the request succeeds with the embedded plan.
C13_WrappedPlanIsDecoded ==
    (Responded /\ calls # <<>> /\ thrown = Undefined /\ WrapsAnObject(outputText)) =>
        /\ LastResponse.status = 200
        /\ LastResponse.body.plan = normalizePlan(JSONParse(salvagedText(outputText)))

\* the HTTP status the upstream API reported with an error, if any
UpstreamStatus(err) ==
    IF Get(err, "status").t = "number" THEN Get(err, "status")
    ELSE Get(Get(err, "response"), "status")

\* why the request failed, read off the request, the server and the oracle
FailureKind ==
    IF ~openaiConfigured THEN "oracle not configured"
    ELSE IF combinedLength(request) > MAX_IA_INPUT_CHARS THEN "input too large"
    ELSE IF calls = <<>> THEN "internal error"
    ELSE IF thrown \in OracleErrors
    THEN (IF UpstreamStatus(thrown) = Num(Whole(429)) THEN "rate limited"
          ELSE IF UpstreamStatus(thrown) = Num(Whole(401)) THEN "unauthorized"
          ELSE "oracle call failed")
    ELSE IF JSONParseRaises(outputText) THEN "malformed oracle output"
    ELSE IF thrown = TypeErrorThrown THEN "internal error"
    ELSE "none"

FailureKinds ==
    {"input too large", "oracle not configured", "malformed oracle output",
     "rate limited", "unauthorized", "oracle call failed"}

\* the status stated for each failure kind
StatedStatus(kind) ==
    CASE kind = "input too large" -> 413
      [] kind = "oracle not configured" -> 503
      [] kind = "malformed oracle output" -> 502
      [] kind = "rate limited" -> 429
      [] kind = "unauthorized" -> 401
      [] kind = "oracle call failed" -> 500
      [] kind = "internal error" -> 500
      [] kind = "none" -> 200

\* C15: the request gets one response, whose status is the one stated for
\* its failure kind (413, 503, 502, 429, 401, and 500 for any other oracle
\* failure), and the statuses of the six kinds are pairwise different, so
\* no kind is reported with the status of another.
C15_StatusPerFailureKind ==
    /\ Responded =>
          /\ Len(responses) = 1
          /\ LastResponse.status = StatedStatus(FailureKind)
          /\ LastResponse.status \in {413, 503, 502, 429, 401} =>
                \A kind \in FailureKinds :
                    StatedStatus(kind) = LastResponse.status => kind = FailureKind
    /\ \A k1, k2 \in FailureKinds : StatedStatus(k1) = StatedStatus(k2) => k1 = k2

\* an upstream 429 carried by the error's response is answered 429
C15_Witness ==
    /\ Responded
    /\ thrown = Obj([response |-> Obj([status |-> Num(Whole(429)), data |-> Str(<<"d">>)])])
    /\ FailureKind = "rate limited"
    /\ LastResponse.status = 429

\* params of the request: the destructuring default {} for an absent one
CallerParams == IF request.params = Undefined THEN EmptyObj ELSE request.params

\* C19: every successful response carries the plan together with totals,
\* and the totals are computeTotals of the returned professionals and
\* materials with the caller's params; what the oracle's output holds
\* besides the lines changes nothing.
C19_TotalsOfReturnedPlanAndCallerParams ==
    Succeeded =>
        /\ {"plan", "totals"} \subseteq DOMAIN LastResponse.body
        /\ LastResponse.body.totals.t = "totals"
        /\ LastResponse.body.totals =
               computeTotals(ArgOf(LastResponse.body.plan.f.professionals,
                                   LastResponse.body.plan.f.materials,
                                   CallerParams))

\* the oracle echoed parameters of its own; the caller's were used
C19_Witness ==
    /\ Succeeded
    /\ outputText = EchoPlanText
    /\ request.params =
           ParamsOf(Num(Whole(7)), Undefined, Num(Whole(150)), Num(Exp10(2, 5)))
    /\ LastResponse.body.totals.margenPct = Num(Whole(80))
    /\ LastResponse.body.totals.factorPrestacional = Num(Whole(3))
    /\ LastResponse.body.totals.subtotalProfesionales = Num(Whole(6000))

-----------------------------------------------------------------------------
(* POST /ai/costeo: the handler with condensation (index.js)               *)
(* The request is modelled by what the handler derives from it: whether a  *)
(* pasted text holds a base64 PDF, the length of fullText (labels, pasted  *)
(* texts and notes, blanks collapsed) and one financial parameter.  No PDF *)
(* file is uploaded.                                                       *)

\* chunkText(fullText, 9000)
CHUNK_CHARS == 9000

RECURSIVE chunkTextFrom(_, _, _, _)
\* the while loop of chunkText: chunks.push(text.slice(i, i + maxChars))
chunkTextFrom(text, i, maxChars, chunks) ==
    IF i < Len(text)
    THEN chunkTextFrom(text, i + maxChars, maxChars,
                       Append(chunks, slice(text, i, Min2(i + maxChars, Len(text)))))
    ELSE chunks

\* only the chunks of full size: the rest of the text is left out
chunkTextWholeChunksOnly(text, maxChars) ==
    chunkTextFrom(slice(text, 0, Len(text) - (Len(text) % maxChars)), 0, maxChars, <<>>)

\* chunkText(text, maxChars)
chunkText(text, maxChars) == chunkTextFrom(text, 0, maxChars, <<>>)

\* a text of n characters
TextOfLength(n) == [i \in 1..n |-> "x"]

\* safeNumber(x, fallback)
safeNumber(x, fallback) ==
    IF IsFinite(ToNumber(x)) THEN ToNumber(x) ELSE fallback

\* v[0] for an array v, undefined for anything else (optional chaining)
First(v) == IF v.t = "array" /\ Len(v.a) > 0 THEN v.a[1] ELSE Undefined

\* r.choices?.[0]?.message?.content
messageContent(r) == Get(Get(First(Get(r, "choices")), "message"), "content")

\* r.choices?.[0]?.message?.content || dflt
contentOr(r, dflt) ==
    IF Truthy(messageContent(r)) THEN messageContent(r).s ELSE dflt

RECURSIVE JoinWith(_, _)
\* texts.join(sep)
JoinWith(texts, sep) ==
    IF texts = <<>> THEN <<>>
    ELSE IF Len(texts) = 1 THEN texts[1]
    ELSE texts[1] \o sep \o JoinWith(Tail(texts), sep)

\* partials.join("\n\n---\n\n")
PartialSeparator == Chars("\n\n---\n\n")

\* s.includes(sub)
Includes(s, sub) ==
    \E i \in 1..(Len(s) - Len(sub) + 1) : SubSeq(s, i, i + Len(sub) - 1) = sub

UpperLetters == Chars("ABCDEFGHIJKLMNOPQRSTUVWXYZ")
LowerLetters == Chars("abcdefghijklmnopqrstuvwxyz")

\* s.toLowerCase()
toLowerCase(s) ==
    [i \in 1..Len(s) |->
        IF \E k \in 1..26 : UpperLetters[k] = s[i]
        THEN LowerLetters[CHOOSE k \in 1..26 : UpperLetters[k] = s[i]]
        ELSE s[i]]

\* const msg = String(e?.message || e)
condenseMessage(e) == IF Truthy(Get(e, "message")) THEN ToStr(Get(e, "message")) ELSE ToStr(e)

\* a catch block that answers with an empty plan instead of an error
condenseCatchDefaultsPlan(e) == Response(200, [ok |-> TRUE, plan |-> EmptyObj])

\* the catch block of index.js: quota and rate errors are told by the
\* wording of the message
condenseCatch(e) ==
    IF \/ Includes(condenseMessage(e), Chars("429"))
       \/ Includes(toLowerCase(condenseMessage(e)), Chars("rate"))
       \/ Includes(toLowerCase(condenseMessage(e)), Chars("quota"))
    THEN Response(429, [error |-> "Limite/cuota o tamano excedido en OpenAI",
                        detail |-> condenseMessage(e)])
    ELSE Response(500, [error |-> "Error en IA", detail |-> condenseMessage(e)])

\* the SyntaxError of JSON.parse: its message depends on the engine, with
\* or without the beginning of the text
SyntaxErrors(text) ==
    {Obj([message |-> Str(Chars("Unexpected token in JSON at position 0"))]),
     Obj([message |-> Str(Chars("Unexpected token, \"")
                          \o SubSeq(text, 1, Min2(Len(text), 10))
                          \o Chars("\" is not valid JSON"))])}

\* the chunks of the request's fullText
condenseChunks(req) == chunkText(TextOfLength(req.fullTextLength), CHUNK_CHARS)

\* a chat.completions.create call, as issued: not answered yet
ChatCall(purpose, chunk, input) ==
    [purpose |-> purpose, chunk |-> chunk, input |-> input, answer |-> Undefined]

\* the call for chunk i; the chunk is referred to by its position and length
partialCall(req, i) == ChatCall("partial", i, [chars |-> Len(condenseChunks(req)[i])])

\* a merge that leaves out the chunk answered last
mergeCallWithoutLast(collected) ==
    ChatCall("merge", 0, JoinWith(SubSeq(collected, 1, Len(collected) - 1), PartialSeparator))

mergeCall(collected) == ChatCall("merge", 0, JoinWith(collected, PartialSeparator))

\* DB.professionals.slice(0, 50)
PROFESSIONALS_IN_FINAL_PROMPT == 50

\* const samplePros = DB.professionals.slice(0, 50)
samplePros(professionals) == firstItems(professionals, PROFESSIONALS_IN_FINAL_PROMPT)

\* a final call that always carries the whole source text
finalCallWithSourceText(req, condensed, professionals) ==
    ChatCall("final", 0,
             [condensed |-> TextOfLength(req.fullTextLength),
              factorPrestacional |-> safeNumber(req.factorPrestacional, Dec(158, 2)),
              samplePros |-> samplePros(professionals)])

\* the final call: the prompt carries the condensed text, the parameters and
\* the sample of the professionals catalog
finalCall(req, condensed, professionals) ==
    ChatCall("final", 0,
             [condensed |-> condensed,
              factorPrestacional |-> safeNumber(req.factorPrestacional, Dec(158, 2)),
              samplePros |-> samplePros(professionals)])

\* r[a] || r[b] || "": the first of the columns that holds something
firstColumn(r, names) ==
    IF \E i \in 1..Len(names) : Truthy(Get(r, names[i]))
    THEN Get(r, names[CHOOSE i \in 1..Len(names) :
                          /\ Truthy(Get(r, names[i]))
                          /\ \A j \in 1..(i - 1) : ~Truthy(Get(r, names[j]))])
    ELSE Str(<<>>)

\* s.trim(), for the blank " "
trim(s) ==
    IF \A i \in 1..Len(s) : s[i] = " " THEN <<>>
    ELSE SubSeq(s, CHOOSE i \in 1..Len(s) : s[i] # " " /\ \A j \in 1..(i - 1) : s[j] = " ",
                   CHOOSE i \in 1..Len(s) : s[i] # " " /\ \A j \in (i + 1)..Len(s) : s[j] = " ")

\* s.replace(/[^\d.-]/g, "")
numericChars(s) == SelectSeq(s, LAMBDA c : IsDigit(c) \/ c \in {".", "-"})

\* the entry POST /professionals/load makes of row idx of the sheet
loadedProfessional(r, idx) ==
    Obj([id |-> Str(NumToStr(Whole(idx))),
         perfil |-> Str(trim(ToStr(firstColumn(r, <<"Perfil", "perfil", "Cargo", "cargo", "Rol", "rol">>)))),
         valor_mensual |->
             Num(safeNumber(Str(numericChars(ToStr(firstColumn(r,
                     <<"Valor mensual", "valor mensual", "Salario", "salario", "Tarifa", "tarifa">>)))),
                 Whole(0))),
         seniority |-> Str(trim(ToStr(firstColumn(r, <<"Experiencia", "experiencia">>))))])

\* rows.map(...).filter(p => p.perfil)
professionalsLoad(rows) ==
    SelectSeq([idx \in 1..Len(rows) |-> loadedProfessional(rows[idx], idx)],
              LAMBDA p : p.f.perfil.s # <<>>)

\* a sheet: a row without a profile, then rows of the given profile, one
\* more than the sample takes
Sheet(perfil) ==
    [i \in 1..(PROFESSIONALS_IN_FINAL_PROMPT + MaxExtraEntries + 1) |->
        IF i = 1 THEN Obj([Cargo |-> Str(<<" ">>), Salario |-> Str(<<"9">>)])
        ELSE Obj([Cargo |-> Str(perfil), Salario |-> Str(<<"$", " ">> \o NumToStr(Whole(i)))])]

\* the calls with the answer r recorded on the last one
Answered(cs, r) == [cs EXCEPT ![Len(cs)].answer = r]

\* the handler answers before any oracle call
condenseRejects(hasClient, req) == ~hasClient \/ req.base64

condenseRejection(hasClient) ==
    IF ~hasClient
    THEN Response(500, [error |-> "OPENAI_API_KEY no configurada en el servidor"])
    ELSE Response(400, [error |-> "Estas pegando un PDF en base64."])

\* res.json({ ok: true, input: {...}, plan: json })
condenseSuccess(req, json) ==
    Response(200, [ok |-> TRUE,
                   input |-> [factorPrestacional |->
                                  safeNumber(req.factorPrestacional, Dec(158, 2))],
                   plan |-> json])

\* the labels alone, blanks collapsed: the shortest fullText there is
LabelChars == 96

\* the longest text modelled, in chunks
MaxChunks == 3

\* lengths of fullText on either side of every chunk boundary
FullTextLengths ==
    {LabelChars}
    \cup {CHUNK_CHARS * k : k \in 1..(MaxChunks - 1)}
    \cup {CHUNK_CHARS * k + 1 : k \in 1..(MaxChunks - 1)}

CondenseBody(base64, pdf, n, factor) ==
    [base64 |-> base64, pdf |-> pdf, fullTextLength |-> n, factorPrestacional |-> factor]

\* the requests: pasted base64, a PDF that cannot be read, plain texts
CondenseRequests ==
    {CondenseBody(TRUE, "none", LabelChars + 40, Undefined),
     CondenseBody(FALSE, "broken", LabelChars, Undefined)}
    \cup {CondenseBody(FALSE, "none", n, f) :
            n \in FullTextLengths, f \in {Undefined, Str(Chars("2"))}}

\* a chat completion carrying the text
Completion(text) ==
    Obj([choices |-> Arr(<<Obj([message |-> Obj([content |-> Str(text)])])>>)])

\* completions without a content
EmptyCompletions == {EmptyObj, Obj([choices |-> Arr(<<>>)])}

PartialAnswers == {Completion(Chars("- uno")), Completion(Chars("- dos")), EmptyObj}

MergeAnswers == {Completion(Chars("- uno y dos")), Obj([choices |-> Arr(<<>>)])}

FinalTexts ==
    {Chars("{}"), Chars("{\"profesionales\":[{\"cargo\":\"pm\",\"cantidad\":1}],\"materiales\":[]}"),
     WrappedPlanText, Chars("no json here"), Chars("rate limits apply"),
     Chars("null"), Chars("{\"profesionales\":")}

FinalAnswers == {Completion(t) : t \in FinalTexts} \cup EmptyCompletions

\* what a rejected call throws
ChatErrors ==
    {Obj([status |-> Num(Whole(429)), message |-> Str(Chars("429 Too Many Requests"))]),
     Obj([message |-> Str(Chars("Rate limit reached for requests"))]),
     Obj([message |-> Str(Chars("You exceeded your current quota"))]),
     Obj([status |-> Num(Whole(401)), message |-> Str(Chars("401 Incorrect API key provided"))]),
     Obj([message |-> Str(Chars("Request timed out."))]),
     Obj([message |-> Str(Chars("Connection error."))]),
     Null, Str(Chars("boom"))}

\* what pdfParse throws on a file it cannot read
PdfError == Obj([message |-> Str(Chars("Invalid PDF structure"))])

InitCondense ==
    /\ pc = "received"
    /\ openaiConfigured \in BOOLEAN
    /\ request \in CondenseRequests
    /\ calls = <<>>
    /\ outputText = <<>>
    /\ thrown = Undefined
    /\ responses = <<>>
    /\ partials = <<>>
    /\ COSTINGS = <<>>
    /\ MATERIALS = <<>>
    /\ PROFESSIONALS = professionalsLoad(Sheet(<<"b", "i", "o">>))
    /\ clock = 0
    /\ snapshot = <<>>
    /\ arg = Undefined
    /\ totals = Undefined
    /\ plan = Undefined
    /\ norm = Undefined
    /\ norm2 = Undefined

\* the handler up to its first oracle call: rejections, the PDF, the chunks
CondenseRequest ==
    /\ pc = "received"
    /\ IF condenseRejects(openaiConfigured, request)
       THEN /\ responses' = Append(responses, condenseRejection(openaiConfigured))
            /\ pc' = "responded"
            /\ UNCHANGED <<calls, thrown>>
       ELSE IF request.pdf = "broken"
       THEN /\ thrown' = PdfError
            /\ responses' = Append(responses, condenseCatch(PdfError))
            /\ pc' = "responded"
            /\ UNCHANGED calls
       ELSE IF Len(condenseChunks(request)) > 1
       THEN /\ calls' = Append(calls, partialCall(request, 1))
            /\ pc' = "awaitPartial"
            /\ UNCHANGED <<responses, thrown>>
       ELSE /\ calls' = Append(calls, finalCall(request, TextOfLength(request.fullTextLength), PROFESSIONALS))
            /\ pc' = "awaitFinal"
            /\ UNCHANGED <<responses, thrown>>
    /\ snapshot' = PROFESSIONALS
    /\ UNCHANGED <<arg, totals, plan, norm, norm2, openaiConfigured, request,
                   outputText, partials, COSTINGS, MATERIALS, PROFESSIONALS, clock>>

\* the call for a chunk resolves: its content is kept, then the next chunk
\* is sent, or the merge once every chunk has been answered
PartialResolves ==
    /\ pc = "awaitPartial"
    /\ \E r \in PartialAnswers :
          /\ partials' = Append(partials, contentOr(r, <<>>))
          /\ IF Len(partials') < Len(condenseChunks(request))
             THEN /\ calls' = Append(Answered(calls, r),
                                     partialCall(request, Len(partials') + 1))
                  /\ pc' = "awaitPartial"
             ELSE /\ calls' = Append(Answered(calls, r), mergeCall(partials'))
                  /\ pc' = "awaitMerge"
    /\ UNCHANGED <<arg, totals, plan, norm, norm2, openaiConfigured, request,
                   outputText, thrown, responses, COSTINGS, storeVars>>

\* the merge resolves: its content is the condensed text of the final call
MergeResolves ==
    /\ pc = "awaitMerge"
    /\ \E r \in MergeAnswers :
          calls' = Append(Answered(calls, r), finalCall(request, contentOr(r, <<>>), PROFESSIONALS))
    /\ pc' = "awaitFinal"
    /\ UNCHANGED <<arg, totals, plan, norm, norm2, openaiConfigured, request,
                   outputText, thrown, responses, partials, COSTINGS, storeVars>>

\* the final call resolves: its content, or "{}", is decoded and returned
FinalResolves ==
    /\ pc = "awaitFinal"
    /\ \E r \in FinalAnswers :
          /\ calls' = Answered(calls, r)
          /\ outputText' = contentOr(r, Chars("{}"))
          /\ IF JSONParseRaises(outputText')
             THEN /\ thrown' \in SyntaxErrors(outputText')
                  /\ responses' = Append(responses, condenseCatch(thrown'))
                  /\ UNCHANGED plan
             ELSE /\ plan' = JSONParse(outputText')
                  /\ responses' = Append(responses, condenseSuccess(request, plan'))
                  /\ UNCHANGED thrown
    /\ pc' = "responded"
    /\ UNCHANGED <<arg, totals, norm, norm2, openaiConfigured, request, partials, COSTINGS, storeVars>>

\* a handler that sends a rejected call once more before giving up
ChatCallFailsRetries ==
    /\ pc \in {"awaitPartial", "awaitMerge", "awaitFinal"}
    /\ \E e \in ChatErrors :
          /\ thrown' = e
          /\ IF thrown = Undefined
             THEN /\ calls' = Append(calls, calls[Len(calls)])
                  /\ UNCHANGED <<pc, responses>>
             ELSE /\ responses' = Append(responses, condenseCatch(e))
                  /\ pc' = "responded"
                  /\ UNCHANGED calls
    /\ UNCHANGED <<arg, totals, plan, norm, norm2, openaiConfigured, request,
                   outputText, partials, COSTINGS, storeVars>>

\* the call in flight is rejected: the catch block answers
ChatCallFails ==
    /\ pc \in {"awaitPartial", "awaitMerge", "awaitFinal"}
    /\ \E e \in ChatErrors :
          /\ thrown' = e
          /\ responses' = Append(responses, condenseCatch(e))
    /\ pc' = "responded"
    /\ UNCHANGED <<arg, totals, plan, norm, norm2, openaiConfigured, request, calls,
                   outputText, partials, COSTINGS, storeVars>>

NextCondense ==
    \/ CondenseRequest
    \/ PartialResolves
    \/ MergeResolves
    \/ FinalResolves
    \/ ChatCallFails

SpecCondense == InitCondense /\ [][NextCondense]_vars

\* the uploads of POST /professionals/load: no file, an empty sheet, a sheet
UploadedSheets == {Undefined, Arr(<<>>), Arr(Sheet(<<"g", "e", "o">>))}

\* POST /professionals/load, handled while the estimation request waits; its
\* response goes to the client of the upload
ProfessionalsLoad ==
    /\ \E file \in UploadedSheets :
          PROFESSIONALS' = IF file = Undefined THEN PROFESSIONALS
                           ELSE professionalsLoad(file.a)
    /\ UNCHANGED <<pc, arg, totals, plan, norm, norm2, serverVars, MATERIALS, clock, snapshot>>

\* an estimation request and the uploads handled between its steps
NextSnapshot == NextCondense \/ ProfessionalsLoad

\* a request answered directly and one that is condensed from two chunks
SnapshotRequests ==
    {CondenseBody(FALSE, "none", n, Undefined) : n \in {LabelChars, CHUNK_CHARS + 1}}

InitSnapshot == InitCondense /\ openaiConfigured /\ request \in SnapshotRequests

SpecSnapshot == InitSnapshot /\ [][NextSnapshot]_vars

-----------------------------------------------------------------------------
(* Properties of the handler with condensation                             *)

\* the last call issued is the final one and the oracle has answered it
FinalAnswered ==
    /\ calls # <<>>
    /\ calls[Len(calls)].purpose = "final"
    /\ calls[Len(calls)].answer # Undefined

\* the raw text of the final answer, empty when it carries no content
FinalOutput == contentOr(calls[Len(calls)].answer, <<>>)

\* text is neither JSON nor a JSON object wrapped in commentary
Undecodable(text) == JSONParseRaises(text) /\ ~WrapsAnObject(text)

\* C14 as claimed: when the oracle's final output can be decoded neither
\* directly nor by brace salvage (empty output and output without braces
\* included), the request is answered 502 with an excerpt of at most 2000
\* characters of the raw text, and never with success.
C14_UndecodableOutputAnswers502 ==
    (pc = "responded" /\ FinalAnswered /\ Undecodable(FinalOutput)) =>
        /\ LastResponse.status = 502
        /\ Len(LastResponse.body.detail) <= ExcerptChars


\* the calls of the log made for the given purpose, in the order issued
CallsFor(purpose) == SelectSeq(calls, LAMBDA c : c.purpose = purpose)

\* the request is handled in condensation mode
CondensationMode == pc # "received" /\ Len(condenseChunks(request)) > 1

\* the text the oracle extracted from the chunk of a partial call
ExtractionOf(c) == contentOr(c.answer, <<>>)

\* position of the first call of the log made for the purpose
IssuedAt(purpose) == CHOOSE i \in 1..Len(calls) : calls[i].purpose = purpose /\ \A j \in 1..(i - 1) : calls[j].purpose # purpose

\* C17: in condensation mode the merge call is in the log only once every
\* chunk's partial call has been issued and answered, its input contains the
\* text extracted from every chunk, and the final call is in the log only
\* once the merge call has been answered.
C17_MergeJoinsAllPartials ==
    CondensationMode =>
        /\ CallsFor("merge") # <<>> =>
              /\ Len(CallsFor("partial")) = Len(condenseChunks(request))
              /\ \A i \in 1..Len(CallsFor("partial")) :
                    /\ CallsFor("partial")[i].chunk = i
                    /\ CallsFor("partial")[i].answer # Undefined
                    /\ Includes(CallsFor("merge")[1].input, ExtractionOf(CallsFor("partial")[i]))
              /\ \A i \in 1..Len(calls) :
                    calls[i].purpose = "partial" => i < IssuedAt("merge")
        /\ CallsFor("final") # <<>> =>
              /\ CallsFor("merge") # <<>>
              /\ CallsFor("merge")[1].answer # Undefined
              /\ IssuedAt("merge") < IssuedAt("final")

\* three chunks with different extractions have been merged and the final
\* call is out
C17_Witness ==
    /\ CondensationMode /\ pc = "awaitFinal"
    /\ Len(condenseChunks(request)) = MaxChunks
    /\ ExtractionOf(CallsFor("partial")[1]) # ExtractionOf(CallsFor("partial")[MaxChunks])
    /\ ExtractionOf(CallsFor("partial")[MaxChunks]) # <<>>


-----------------------------------------------------------------------------
(* Both estimation handlers: a request reaches one of them                 *)

InitEstimation == InitCosteo \/ InitCondense

NextEstimation == NextCosteo \/ NextCondense

SpecEstimation == InitEstimation /\ [][NextEstimation]_vars

\* the call at position i of the log has been answered
AnsweredAt(i) == calls[i].answer # Undefined

\* the text to decode that the answered call c returned
OutputOf(c) ==
    IF c.purpose = "structured" THEN outputTextOf(c.answer) ELSE contentOr(c.answer, <<>>)

\* the call at position i returned a text that is to be decoded and is not JSON
MalformedAt(i) ==
    /\ calls[i].purpose \in {"structured", "final"}
    /\ AnsweredAt(i)
    /\ JSONParseRaises(OutputOf(calls[i]))

\* the handler has ended on a call that the oracle never answered
CallFailed == pc = "responded" /\ calls # <<>> /\ ~AnsweredAt(Len(calls))

\* C16: within a request no two calls of the log are for the same purpose
\* and chunk, a call that was not answered is the last of the log, and so is
\* a call that returned malformed output, after which the handler has ended.
C16_NoOracleCallRetried ==
    /\ \A i, j \in 1..Len(calls) :
          i # j => <<calls[i].purpose, calls[i].chunk>> # <<calls[j].purpose, calls[j].chunk>>
    /\ \A i \in 1..Len(calls) : ~AnsweredAt(i) => i = Len(calls)
    /\ \A i \in 1..Len(calls) : MalformedAt(i) => i = Len(calls) /\ pc = "responded"
    /\ CallFailed => thrown # Undefined /\ Len(responses) = 1

\* the call for the second of three chunks was rejected: the log ends there
C16_Witness ==
    /\ CallFailed /\ thrown \in ChatErrors
    /\ Len(calls) = 2
    /\ calls[2].purpose = "partial" /\ calls[2].chunk = 2
    /\ Len(condenseChunks(request)) = MaxChunks

\* C18: when a call of the request was rejected (a timeout included, in a
\* partial, merge, final or structured call) the one response of the request
\* is an error without plan and without totals; a response carries a plan
\* only when every call of the request was answered.
C18_FailedCallGivesErrorWithoutPlan ==
    /\ Len(responses) <= 1
    /\ CallFailed =>
          /\ Len(responses) = 1
          /\ LastResponse.status >= 400
          /\ "plan" \notin DOMAIN LastResponse.body
          /\ "totals" \notin DOMAIN LastResponse.body
    /\ (responses # <<>> /\ "plan" \in DOMAIN LastResponse.body) =>
          /\ calls # <<>>
          /\ \A i \in 1..Len(calls) : AnsweredAt(i)

\* the merge call timed out
C18_Witness ==
    /\ CallFailed
    /\ calls[Len(calls)].purpose = "merge"
    /\ thrown = Obj([message |-> Str(Chars("Request timed out."))])
    /\ LastResponse.status = 500


-----------------------------------------------------------------------------
(* The costings store: POST /costings/save, PUT and DELETE /costings/:id   *)
(* Each request is handled in one step.  The timestamps of a record are    *)
(* left out: no handler reads them.                                        *)

\* the most records the store is filled with
MaxCostings == 2

\* uid("cost"): an identifier no stored record has
CostingId(n) == Str(Chars("cost_") \o NumToStr(Whole(n)))

CostingIds == {CostingId(n) : n \in 1..MaxCostings}

\* { ...a, ...b }: the fields of both, those of b winning
Spread(a, b) ==
    [k \in DOMAIN a \cup DOMAIN b |-> IF k \in DOMAIN b THEN b[k] ELSE a[k]]

\* Array.isArray(v) ? v : []
arrayOrEmpty(v) == IF v.t = "array" THEN v ELSE Arr(<<>>)

\* v || dflt
orElse(v, dflt) == IF Truthy(v) THEN v ELSE dflt

\* new Date().toISOString(): the instant of the clock, as a text
nowISO == Str(Chars("T") \o NumToStr(Whole(clock)))

\* the record POST /costings/save builds from the payload
costingRecord(id, payload) ==
    Obj([id |-> id,
         createdAt |-> nowISO,
         updatedAt |-> nowISO,
         title |-> Str(ToStr(orElse(Get(payload, "title"), Str(Chars("Costo de produccion"))))),
         params |-> orElse(Get(payload, "params"), EmptyObj),
         professionals |-> arrayOrEmpty(Get(payload, "professionals")),
         materials |-> arrayOrEmpty(Get(payload, "materials")),
         totals |-> orElse(Get(payload, "totals"), computeTotals(payload))])

\* building the record raises: computeTotals(payload) is evaluated and raises
costingRecordRaises(payload) ==
    ~Truthy(Get(payload, "totals")) /\ computeTotalsRaises(payload)

\* COSTINGS.findIndex(c => c.id === id), from 1; 0 when there is none
findIndex(costings, id) ==
    IF \E i \in 1..Len(costings) : costings[i].f.id = id
    THEN CHOOSE i \in 1..Len(costings) :
             costings[i].f.id = id /\ \A j \in 1..(i - 1) : costings[j].f.id # id
    ELSE 0

\* payload.params != null || payload.professionals != null || payload.materials != null
needRecalc(payload) ==
    \/ ~IsNullish(Get(payload, "params"))
    \/ ~IsNullish(Get(payload, "professionals"))
    \/ ~IsNullish(Get(payload, "materials"))

\* the totals PUT recalculates from the merged record
recalculated(merged) ==
    computeTotals(ArgOf(arrayOrEmpty(merged.professionals), arrayOrEmpty(merged.materials),
                        orElse(merged.params, EmptyObj)))

\* the record PUT /costings/:id stores: the old one overlaid with the payload
mergedRecord(record, payload) ==
    IF needRecalc(payload)
    THEN Obj([Spread(record.f, payload.f) EXCEPT !.updatedAt = nowISO,
                                                 !.totals = recalculated(Spread(record.f, payload.f))])
    ELSE Obj([Spread(record.f, payload.f) EXCEPT !.updatedAt = nowISO])

\* the one professional line, and the parameters, of the payloads
CostingProfessional == ProfessionalLine(Whole(2), Whole(6), Dec(5, 1), Exp10(5, 6))

CostingParams == ParamsOf(Num(Whole(2)), Num(Whole(10)), Num(Whole(50)), Undefined)

\* totals a client sends along that no computation of the server produced
ClientTotals == Obj([totalProduccion |-> Num(Whole(999))])

\* the bodies of POST /costings/save: a table without totals, empty tables
\* with totals of the client, an empty body, a table that is null
SavePayloads ==
    {ArgOf(Arr(<<CostingProfessional>>), Arr(<<>>), CostingParams),
     Obj([professionals |-> Arr(<<>>), materials |-> Arr(<<>>), params |-> EmptyObj,
          totals |-> ClientTotals]),
     EmptyObj, Obj([professionals |-> Null])}

\* the bodies of PUT /costings/:id: a table, the parameters, totals alone,
\* a table that is not a list, a whole record as another GET returned it
UpdatePayloads ==
    {Obj([professionals |-> Arr(<<>>)]), Obj([params |-> CostingParams]),
     Obj([totals |-> ClientTotals]), Obj([materials |-> Str(Chars("abc"))]),
     Obj([id |-> CostingId(MaxCostings), createdAt |-> Str(Chars("T9")),
          title |-> Str(Chars("copia"))])}

\* uid("cost") for the store: the first identifier no record has
freshId(costings) ==
    CostingId(CHOOSE n \in 1..(Len(costings) + 1) :
                  /\ \A i \in 1..Len(costings) : costings[i].f.id # CostingId(n)
                  /\ \A m \in 1..(n - 1) :
                        \E i \in 1..Len(costings) : costings[i].f.id = CostingId(m))

InitCostings ==
    /\ pc = "serving"
    /\ COSTINGS = <<>>
    /\ StoresEmpty
    /\ request = Undefined
    /\ responses = <<>>
    /\ openaiConfigured = FALSE
    /\ calls = <<>>
    /\ outputText = <<>>
    /\ thrown = Undefined
    /\ partials = <<>>
    /\ arg = Undefined
    /\ totals = Undefined
    /\ plan = Undefined
    /\ norm = Undefined
    /\ norm2 = Undefined

\* POST /costings/save
SaveCosting ==
    /\ pc = "serving"
    /\ Len(COSTINGS) < MaxCostings
    /\ \E payload \in SavePayloads :
          /\ request' = [method |-> "POST", path |-> "/costings/save", body |-> payload]
          /\ IF costingRecordRaises(payload)
             THEN /\ responses' = <<Response(500, [error |-> "TypeError"])>>
                  /\ UNCHANGED COSTINGS
             ELSE /\ COSTINGS' = <<costingRecord(freshId(COSTINGS), payload)>> \o COSTINGS
                  /\ responses' = <<Response(200, [status |-> "ok", id |-> freshId(COSTINGS)])>>
    /\ UNCHANGED <<pc, arg, totals, plan, norm, norm2, openaiConfigured, calls,
                   outputText, thrown, partials, storeVars>>

\* PUT /costings/:id
UpdateCosting ==
    /\ pc = "serving"
    /\ \E payload \in UpdatePayloads, id \in CostingIds :
          /\ request' = [method |-> "PUT", path |-> id, body |-> payload]
          /\ IF findIndex(COSTINGS, id) = 0
             THEN /\ responses' = <<Response(404, [error |-> "No existe ese costeo"])>>
                  /\ UNCHANGED COSTINGS
             ELSE /\ COSTINGS' = [COSTINGS EXCEPT ![findIndex(COSTINGS, id)] =
                                      mergedRecord(COSTINGS[findIndex(COSTINGS, id)], payload)]
                  /\ responses' = <<Response(200, [status |-> "ok"])>>
    /\ UNCHANGED <<pc, arg, totals, plan, norm, norm2, openaiConfigured, calls,
                   outputText, thrown, partials, storeVars>>

\* DELETE /costings/:id
DeleteCosting ==
    /\ pc = "serving"
    /\ \E id \in CostingIds :
          /\ request' = [method |-> "DELETE", path |-> id, body |-> EmptyObj]
          /\ COSTINGS' = SelectSeq(COSTINGS, LAMBDA c : c.f.id # id)
          /\ responses' = IF Len(COSTINGS') = Len(COSTINGS)
                          THEN <<Response(404, [error |-> "No existe ese costeo"])>>
                          ELSE <<Response(200, [status |-> "ok"])>>
    /\ UNCHANGED <<pc, arg, totals, plan, norm, norm2, openaiConfigured, calls,
                   outputText, thrown, partials, storeVars>>

NextCostings == SaveCosting \/ UpdateCosting \/ DeleteCosting

SpecCostings == InitCostings /\ [][NextCostings]_vars

\* the totals computeTotals gives for what the record stores
TotalsOfStored(record) ==
    computeTotals(ArgOf(record.f.professionals, record.f.materials, record.f.params))

\* C20 as claimed: after any sequence of POST /costings/save and
\* PUT /costings/:id, the totals of every stored record equal computeTotals
\* of the professionals, materials and params the record stores.
C20_StoredTotalsAreRecomputable ==
    \A i \in 1..Len(COSTINGS) : COSTINGS[i].f.totals = TotalsOfStored(COSTINGS[i])

\* the step is a PUT or DELETE request, answered with the status
Answers(methods, status) == request'.method \in methods /\ responses'[1].status = status

\* C28 as claimed: a PUT /costings/:id answered 200 leaves every stored
\* record with the id and the createdAt it had, whatever the body, so the
\* id of the request still finds a record; a PUT or DELETE answered 404
\* leaves the store as it was, and an id that is not stored is answered 404.
C28_UpdatePreservesIdentity ==
    [][(Answers({"PUT"}, 200) =>
           (/\ Len(COSTINGS') = Len(COSTINGS)
            /\ \A i \in 1..Len(COSTINGS) :
                  /\ COSTINGS'[i].f.id = COSTINGS[i].f.id
                  /\ COSTINGS'[i].f.createdAt = COSTINGS[i].f.createdAt
            /\ findIndex(COSTINGS', request'.path) # 0))
       /\ (Answers({"PUT", "DELETE"}, 404) => COSTINGS' = COSTINGS)
       /\ ((request'.method \in {"PUT", "DELETE"} /\ findIndex(COSTINGS, request'.path) = 0) =>
              responses'[1].status = 404)]_vars


-----------------------------------------------------------------------------
(* The stores and the catalogs of the structured-output handler            *)

\* C21: no step of a POST /ai/costeo request, whether it ends in success or
\* in an error and whether or not the request brings catalogs of its own,
\* changes the stored MATERIALS, PROFESSIONALS or COSTINGS.
C21_EstimationLeavesStoresUnchanged ==
    [][MATERIALS' = MATERIALS /\ PROFESSIONALS' = PROFESSIONALS /\ COSTINGS' = COSTINGS]_vars

\* a request with catalogs of its own has succeeded on a server whose
\* stores hold other catalogs
C21_Witness ==
    /\ Succeeded
    /\ Get(request.catalogs, "materials").t = "array"
    /\ MATERIALS # <<>> /\ COSTINGS # <<>>
    /\ MATERIALS # Get(request.catalogs, "materials").a


-----------------------------------------------------------------------------
(* The professionals catalog of index.js during an estimation request      *)

\* C30 as claimed: the sample of professionals in the final prompt is the
\* first 50 entries of the catalog as it was when the request was received,
\* also when POST /professionals/load is handled while the request waits
\* for its partial or merge calls.
C30_FinalPromptUsesCatalogAtReceipt ==
    \A i \in 1..Len(calls) :
        calls[i].purpose = "final" =>
            calls[i].input.samplePros = firstItems(snapshot, PROFESSIONALS_IN_FINAL_PROMPT)


\* the catalog the structured-output handler takes its sample from: the one
\* of the request when it is a list, the stored one otherwise
SampledCatalog(name, stored) ==
    IF Get(request.catalogs, name).t = "array" THEN Get(request.catalogs, name).a ELSE stored

\* sample holds the given fields of the first entries of catalog, up to limit
IsSampleOf(sample, catalog, limit, fields) ==
    /\ Len(sample) = Min2(Len(catalog), limit)
    /\ \A j \in 1..Len(sample) :
          \A k \in 1..Len(fields) : Get(sample[j], fields[k]) = Get(catalog[j], fields[k])

\* C25: whatever the size of the catalogs, the prompt of the structured
\* call carries at most 300 professionals and at most 400 materials, the
\* first entries of the request's catalog when it is a list and of the
\* stored one otherwise; the final prompt of index.js carries the first 50
\* stored professionals; the request's catalogs do not reach the stores.
C25_PromptSampleBounded ==
    \A i \in 1..Len(calls) :
        /\ calls[i].purpose = "structured" =>
              /\ Len(calls[i].input.prosCompact) <= PROFESSIONALS_IN_PROMPT
              /\ Len(calls[i].input.matsCompact) <= MATERIALS_IN_PROMPT
              /\ IsSampleOf(calls[i].input.prosCompact, SampledCatalog("professionals", PROFESSIONALS),
                            PROFESSIONALS_IN_PROMPT, <<"role", "monthlyRef">>)
              /\ IsSampleOf(calls[i].input.matsCompact, SampledCatalog("materials", MATERIALS),
                            MATERIALS_IN_PROMPT, <<"name", "unit", "unitPrice">>)
              /\ Get(request.catalogs, "materials").t = "array" =>
                    MATERIALS # Get(request.catalogs, "materials").a
              /\ Get(request.catalogs, "professionals").t = "array" =>
                    PROFESSIONALS # Get(request.catalogs, "professionals").a
        /\ calls[i].purpose = "final" =>
              /\ Len(calls[i].input.samplePros) <= PROFESSIONALS_IN_PROMPT
              /\ IsSampleOf(calls[i].input.samplePros, PROFESSIONALS,
                            PROFESSIONALS_IN_FINAL_PROMPT,
                            <<"id", "perfil", "valor_mensual", "seniority">>)

\* the request brings catalogs longer than the samples, the stores hold
\* others, and the call is out with samples of exactly the limits
C25_Witness ==
    /\ calls # <<>> /\ calls[1].purpose = "structured"
    /\ Get(request.catalogs, "professionals").t = "array"
    /\ Len(Get(request.catalogs, "professionals").a) > PROFESSIONALS_IN_PROMPT
    /\ Len(Get(request.catalogs, "materials").a) > MATERIALS_IN_PROMPT
    /\ PROFESSIONALS # <<>>
    /\ Len(calls[1].input.prosCompact) = PROFESSIONALS_IN_PROMPT
    /\ Len(calls[1].input.matsCompact) = MATERIALS_IN_PROMPT


-----------------------------------------------------------------------------
(* clampNumber on its own                                                  *)

\* values of every type a decoded JSON body or text can hand to clampNumber
ClampValues ==
    {Undefined, Null, Bool(TRUE), Bool(FALSE), EmptyObj,
     Str(<<>>), Str(<<"1", "2">>), Str(<<"-", "3">>), Str(<<"a", "b", "c">>),
     Arr(<<>>), Arr(<<Num(Whole(5))>>), Arr(<<Num(Whole(1)), Num(Whole(2))>>),
     Arr(<<Str(<<"x">>)>>)}
    \cup {Num(x) : x \in {NaN, PosInf, NegInf, Whole(0), Whole(-5), Whole(1), Dec(158, 2),
                          Whole(2), Whole(3), Whole(30), Whole(40), Whole(41), Whole(80),
                          Whole(81), Dec(5, 1), Exp10(1, 9)}}

\* the ranges and fallbacks clampNumber is called with, and one whose
\* fallback lies outside the range
ClampRanges ==
    {[min |-> Whole(1), max |-> Whole(3), fallback |-> Dec(158, 2)],
     [min |-> Whole(0), max |-> Whole(40), fallback |-> Whole(5)],
     [min |-> Whole(0), max |-> Whole(80), fallback |-> Whole(30)],
     [min |-> Whole(0), max |-> Whole(2), fallback |-> Whole(1)],
     [min |-> Whole(10), max |-> Whole(20), fallback |-> Whole(0)]}

InitClamp ==
    /\ pc = "clamp"
    /\ arg \in {[value |-> v, min |-> r.min, max |-> r.max, fallback |-> r.fallback] :
                    v \in ClampValues, r \in ClampRanges}
    /\ totals = Undefined
    /\ plan = Undefined
    /\ norm = Undefined
    /\ norm2 = Undefined
    /\ ServerIdle

\* clampNumber(value, min, max, fallback) is called and returns
CallClampNumber ==
    /\ pc = "clamp"
    /\ totals' = Num(clampNumber(arg.value, arg.min, arg.max, arg.fallback))
    /\ pc' = "clamped"
    /\ UNCHANGED <<arg, plan, norm, norm2, serverVars, storeVars>>

NextClamp == CallClampNumber

SpecClamp == InitClamp /\ [][NextClamp]_vars

\* the result of clamping x into [min, max]
ClampedInto(x, min, max) == IF Lt(x, min) THEN min ELSE IF Lt(max, x) THEN max ELSE x

-----------------------------------------------------------------------------
(* The parameters computeTotals returns                                    *)

\* the parameter is absent from the argument: undefined or null
Absent(name) == IsNullish(RawParam(arg, name))

\* C27: whenever computeTotals returns, the returned margenPct is in
\* [0, 80], factorPrestacional in [1, 3] and imprevistosPct in [0, 40], each
\* at its default (30, 1.58, 5) when absent; the returned ofertaSugerida is
\* a number, never null, and at least the returned totalProduccion.
C27_ReturnedParametersInRange ==
    Returned =>
        /\ NumIn(totals.margenPct, Whole(0), Whole(80))
        /\ NumIn(totals.factorPrestacional, Whole(1), Whole(3))
        /\ NumIn(totals.imprevistosPct, Whole(0), Whole(40))
        /\ Absent("margenPct") => totals.margenPct = Num(Whole(30))
        /\ Absent("factorPrestacional") => totals.factorPrestacional = Num(Dec(158, 2))
        /\ Absent("imprevistosPct") => totals.imprevistosPct = Num(Whole(5))
        /\ totals.ofertaSugerida.t = "number"
        /\ IsFinite(totals.ofertaSugerida.v)
        /\ Le(totals.totalProduccion.v, totals.ofertaSugerida.v)

\* a margin of 150 was asked for on a positive cost: 80 is returned and the
\* offer exceeds the cost
C27_Witness ==
    /\ Returned
    /\ RawParam(arg, "margenPct") = Num(Whole(150))
    /\ totals.margenPct = Num(Whole(80))
    /\ Lt(Whole(0), totals.totalProduccion.v)
    /\ Lt(totals.totalProduccion.v, totals.ofertaSugerida.v)


-----------------------------------------------------------------------------
(* chunkText on its own                                                     *)

\* the longest text and the largest chunk size tried
MaxTextLen == 5
MaxChunkChars == 4

RECURSIVE TextsOfLength(_)
\* the texts of n characters over a two-letter alphabet
TextsOfLength(n) ==
    IF n = 0 THEN {<<>>}
    ELSE {Append(t, c) : t \in TextsOfLength(n - 1), c \in {"a", "b"}}

ChunkTexts == UNION {TextsOfLength(n) : n \in 0..MaxTextLen}

InitChunk ==
    /\ pc = "chunk"
    /\ arg \in {[text |-> t, maxChars |-> m] : t \in ChunkTexts, m \in 1..MaxChunkChars}
    /\ totals = Undefined
    /\ plan = Undefined
    /\ norm = Undefined
    /\ norm2 = Undefined
    /\ ServerIdle

\* chunks = chunkText(text, maxChars)
CallChunkText ==
    /\ pc = "chunk"
    /\ totals' = [t |-> "chunks", a |-> chunkText(arg.text, arg.maxChars)]
    /\ pc' = "chunked"
    /\ UNCHANGED <<arg, plan, norm, norm2, serverVars, storeVars>>

NextChunk == CallChunkText

SpecChunk == InitChunk /\ [][NextChunk]_vars

RECURSIVE Joined(_)
\* the chunks concatenated in order
Joined(chunks) == IF chunks = <<>> THEN <<>> ELSE Head(chunks) \o Joined(Tail(chunks))

\* ceil(a / b) for a >= 0, b >= 1
CeilDiv(a, b) == (a + b - 1) \div b

\* C23: for a whole maxChars >= 1, chunkText(text, maxChars) is a partition
\* of the text: the chunks concatenated in order are the text, every chunk
\* is non-empty and at most maxChars long, every chunk but the last is
\* exactly maxChars long, there are ceil(length / maxChars) chunks, and the
\* empty text gives no chunk.
C23_ChunksPartitionTheText ==
    pc = "chunked" =>
        /\ Joined(totals.a) = arg.text
        /\ \A i \in 1..Len(totals.a) :
              /\ Len(totals.a[i]) >= 1
              /\ Len(totals.a[i]) <= arg.maxChars
              /\ i < Len(totals.a) => Len(totals.a[i]) = arg.maxChars
        /\ Len(totals.a) = CeilDiv(Len(arg.text), arg.maxChars)
        /\ arg.text = <<>> => totals.a = <<>>

\* a text of five characters cut by two: two full chunks and a last one of
\* one character
C23_Witness ==
    /\ pc = "chunked"
    /\ arg.text = <<"a", "b", "b", "a", "b">>
    /\ arg.maxChars = 2
    /\ totals.a = << <<"a", "b">>, <<"b", "a">>, <<"b">> >>


-----------------------------------------------------------------------------
(* Direct mode and condensation mode of the handler of index.js            *)

\* the purposes of the calls of a complete run over n chunks, in order
PurposesInOrder(n) ==
    [i \in 1..(n + 2) |-> IF i <= n THEN "partial" ELSE IF i = n + 1 THEN "merge" ELSE "final"]

\* the purposes of the calls of the log, in order
PurposesIssued == [i \in 1..Len(calls) |-> calls[i].purpose]

\* the handler has answered and every call it issued was answered
RunComplete == pc = "responded" /\ calls # <<>> /\ \A i \in 1..Len(calls) : calls[i].answer # Undefined

\* C24: once the handler of index.js has issued a call, a source text of at
\* most 9000 characters means direct mode (one call in all, carrying the
\* source text itself); a longer one means condensation mode: the calls are,
\* in this order, one extraction per chunk, one merge and one final call,
\* n + 2 calls on a run where every call is answered, and the final call
\* carries the content of the merge answer and not the source text.
C24_DirectModeUpTo9000Chars ==
    calls # <<>> =>
        IF request.fullTextLength <= CHUNK_CHARS
        THEN /\ Len(calls) = 1
             /\ calls[1].purpose = "final"
             /\ calls[1].input.condensed = TextOfLength(request.fullTextLength)
        ELSE /\ Len(calls) <= CeilDiv(request.fullTextLength, CHUNK_CHARS) + 2
             /\ PurposesIssued =
                   SubSeq(PurposesInOrder(CeilDiv(request.fullTextLength, CHUNK_CHARS)), 1, Len(calls))
             /\ \A i \in 1..Len(calls) : calls[i].purpose = "partial" => calls[i].chunk = i
             /\ RunComplete => Len(calls) = CeilDiv(request.fullTextLength, CHUNK_CHARS) + 2
             /\ calls[Len(calls)].purpose = "final" =>
                   /\ calls[Len(calls)].input.condensed = contentOr(calls[Len(calls) - 1].answer, <<>>)
                   /\ calls[Len(calls)].input.condensed # TextOfLength(request.fullTextLength)

\* a text of 9001 characters has been handled to the end: two extractions,
\* the merge, and the final call carrying the merged summary
C24_Witness ==
    /\ RunComplete
    /\ request.fullTextLength = CHUNK_CHARS + 1
    /\ Len(calls) = 4
    /\ calls[4].input.condensed = Chars("- uno y dos")


-----------------------------------------------------------------------------
(* Every request is answered                                                *)

\* The handler's first step is run by the event loop once the request has
\* arrived, and every oracle call in flight eventually resolves or rejects:
\* a step that is possible is eventually taken.
FairEstimation == InitEstimation /\ [][NextEstimation]_vars /\ WF_vars(NextEstimation)

\* C26: every POST /ai/costeo request is eventually answered, and at no
\* time has it been answered twice: once the handler is done exactly one
\* response has been sent, whichever path it took (oracle not configured,
\* input refused, call rejected, output undecodable, exception, success).
C26_ExactlyOneResponse ==
    /\ <>(pc = "responded")
    /\ [](Len(responses) <= 1)
    /\ [](pc = "responded" => Len(responses) = 1)

\* the long request of index.js was answered after all its calls, on an
\* output that could not be decoded
C26_Witness ==
    /\ pc = "responded"
    /\ Len(responses) = 1
    /\ Len(calls) = MaxChunks + 2
    /\ calls[Len(calls)].answer # Undefined
    /\ JSONParseRaises(outputText)


-----------------------------------------------------------------------------
(* The costings of index.js: DB.costings, held in COSTINGS                 *)

\* the last millisecond of the clock modelled, counted from the start
MaxClock == 2

\* String(Date.now())
dateNowId == Str(NumToStr(Whole(clock)))

\* the ids a request may name: those of every millisecond, and one more
DbIds == {Str(NumToStr(Whole(ms))) : ms \in 0..(MaxClock + 1)}

\* the bodies of POST /costings/save and PUT /costings/:id
DbPayloads == {EmptyObj, Obj([objeto |-> Str(Chars("via"))])}

\* { id, createdAt: nowISO(), updatedAt: nowISO(), payload }
dbRecord(id, payload) ==
    Obj([id |-> id, createdAt |-> nowISO, updatedAt |-> nowISO, payload |-> payload])

\* POST /costings/save of index.js
DbSaveCosting ==
    /\ pc = "serving"
    /\ Len(COSTINGS) < MaxCostings
    /\ \E payload \in DbPayloads :
          /\ request' = [method |-> "POST", path |-> "/costings/save", body |-> payload]
          /\ COSTINGS' = Append(COSTINGS, dbRecord(dateNowId, payload))
          /\ responses' = <<Response(200, [ok |-> TRUE, id |-> dateNowId])>>
    /\ UNCHANGED <<pc, arg, totals, plan, norm, norm2, openaiConfigured, calls,
                   outputText, thrown, partials, storeVars>>

\* GET /costings/:id of index.js
DbGetCosting ==
    /\ pc = "serving"
    /\ \E id \in DbIds :
          /\ request' = [method |-> "GET", path |-> id, body |-> EmptyObj]
          /\ responses' = IF findIndex(COSTINGS, id) = 0
                          THEN <<Response(404, [error |-> "No encontrado"])>>
                          ELSE <<Response(200, [ok |-> TRUE,
                                                item |-> COSTINGS[findIndex(COSTINGS, id)]])>>
    /\ UNCHANGED <<pc, arg, totals, plan, norm, norm2, openaiConfigured, calls,
                   outputText, thrown, partials, COSTINGS, storeVars>>

\* PUT /costings/:id of index.js
DbUpdateCosting ==
    /\ pc = "serving"
    /\ \E id \in DbIds, payload \in DbPayloads :
          /\ request' = [method |-> "PUT", path |-> id, body |-> payload]
          /\ IF findIndex(COSTINGS, id) = 0
             THEN /\ responses' = <<Response(404, [error |-> "No encontrado"])>>
                  /\ UNCHANGED COSTINGS
             ELSE /\ COSTINGS' = [COSTINGS EXCEPT ![findIndex(COSTINGS, id)] =
                                      Obj([@.f EXCEPT !.payload = payload, !.updatedAt = nowISO])]
                  /\ responses' = <<Response(200, [ok |-> TRUE])>>
    /\ UNCHANGED <<pc, arg, totals, plan, norm, norm2, openaiConfigured, calls,
                   outputText, thrown, partials, storeVars>>

\* DELETE /costings/:id of index.js
DbDeleteCosting ==
    /\ pc = "serving"
    /\ \E id \in DbIds :
          /\ request' = [method |-> "DELETE", path |-> id, body |-> EmptyObj]
          /\ IF findIndex(COSTINGS, id) = 0
             THEN /\ responses' = <<Response(404, [error |-> "No encontrado"])>>
                  /\ UNCHANGED COSTINGS
             ELSE /\ COSTINGS' = [i \in 1..(Len(COSTINGS) - 1) |->
                                      IF i < findIndex(COSTINGS, id) THEN COSTINGS[i]
                                      ELSE COSTINGS[i + 1]]
                  /\ responses' = <<Response(200, [ok |-> TRUE])>>
    /\ UNCHANGED <<pc, arg, totals, plan, norm, norm2, openaiConfigured, calls,
                   outputText, thrown, partials, storeVars>>

\* a millisecond passes between two requests
Tick ==
    /\ pc = "serving"
    /\ clock < MaxClock
    /\ clock' = clock + 1
    /\ UNCHANGED <<pc, arg, totals, plan, norm, norm2, serverVars, MATERIALS, PROFESSIONALS,
                   snapshot>>

NextDb == DbSaveCosting \/ DbGetCosting \/ DbUpdateCosting \/ DbDeleteCosting \/ Tick

SpecDb == InitCostings /\ [][NextDb]_vars

\* C29 as claimed: after any sequence of saves, updates and deletions on
\* index.js no two stored costings have the same id, also when two saves
\* are handled within the same millisecond.
C29_StoredIdsDistinct ==
    \A i, j \in 1..Len(COSTINGS) : i # j => COSTINGS[i].f.id # COSTINGS[j].f.id

=============================================================================
